---- MODULE Spec2Model ----
(***************************************************************************)
(* ExpenseDashboard: the service layer (src/services) over the relational  *)
(* store declared in src/models/__init__.py.                               *)
(*                                                                         *)
(* The state is the committed content of the database (one set of rows per *)
(* table) plus the outcome kind of the last service call.  Every           *)
(* service function is an operator from the database and its arguments to  *)
(* an outcome [kind, msg, value, db]: kind is "ok" or the name of the      *)
(* exception raised, msg the exception message, value the return value and *)
(* db the committed database afterwards.  A call runs in its own request   *)
(* session (db.init_app, src/app.py:29): an exception raised before        *)
(* db.session.commit() leaves the committed database as it was.            *)
(***************************************************************************)
EXTENDS Integers, Sequences, FiniteSets, TLC

\* ------------------------------------------------------------------ bounds
\* largest primary key the model lets a table hand out
MaxId == 2
\* largest number of rows in the whole database
MaxRows == 3

\* ------------------------------------------------------------ value domains
\* Python None / SQL NULL in an integer-valued column or field (ids are >= 1)
None == 0
\* Python None / SQL NULL in a string-valued column or field
NoneStr == "None"

UserIds == {1, 2}
\* the requests that can be served at the same time
Requests == {1, 2}
\* the ids the calls are made with: an id of 1..MaxId names no row whenever the
\* table holds no row with it
Ids == 1..MaxId


\* ------------------------------------------------------------------- state
\* db: the committed rows; last: how the last call or request step ended;
\* requests: the budget requests served concurrently, each between its reads
\* and its commit; deleted: the entity the last successful delete_X removed,
\* as (table, user, id), where a specification keeps track of it
VARIABLES db, last, requests, deleted
vars == <<db, last, requests, deleted>>

\* no delete_X is remembered
NoEntity == <<"none", None, None>>

\* the tables of the entities a user owns
Tables == {"category", "tag", "expense", "income", "budget"}

EmptyDb == [user |-> {}, category |-> {}, tag |-> {}, expense |-> {}, income |-> {},
            budget |-> {}]

\* ----------------------------------------------------------------- helpers
Max(S) == CHOOSE x \in S : \A y \in S : y <= x

\* INTEGER PRIMARY KEY on SQLite: one more than the largest id in the table
NextId(rows) == IF rows = {} THEN 1 ELSE Max({r.id : r \in rows}) + 1

RowCount(d) == Cardinality(d.category) + Cardinality(d.tag) + Cardinality(d.expense)
               + Cardinality(d.income) + Cardinality(d.budget) + Cardinality(d.user)

\* dict.get(key, default) on a model_dump(exclude_unset=True) dictionary
Get(data, key, default) == IF key \in DOMAIN data THEN data[key] ELSE default

\* a dictionary without some of its keys
Without(data, keys) == [k \in (DOMAIN data) \ keys |-> data[k]]

\* setattr(row, key, value) for every item of the dictionary
SetAttrs(row, data) == [k \in DOMAIN row |-> IF k \in DOMAIN data THEN data[k] ELSE row[k]]

\* sorted(list(S)) for a set of integers
RECURSIVE sorted(_)
sorted(S) == IF S = {} THEN <<>>
             ELSE LET m == CHOOSE x \in S : \A y \in S : x <= y
                  IN <<m>> \o sorted(S \ {m})

Ok(value, d) == [kind |-> "ok", msg |-> <<>>, value |-> value, db |-> d]
Raise(kind, msg, d) == [kind |-> kind, msg |-> msg, value |-> None, db |-> d]

\* ------------------------------------------------------ storage constraints
\* nullable=False columns
NotNullOK(d) ==
    /\ \A u \in d.user : u.username # NoneStr
    /\ \A c \in d.category : c.name # NoneStr
    /\ \A t \in d.tag : t.name # NoneStr
    /\ \A e \in d.expense : e.name # NoneStr /\ e.amount # None /\ e.date # None
    /\ \A i \in d.income : i.source # NoneStr /\ i.amount # None /\ i.date # None
    /\ \A b \in d.budget : b.amount # None /\ b.year # None /\ b.month # None

\* UniqueConstraint('user_id', 'category_id', 'year', 'month'): SQL treats two
\* NULL category_id values as distinct, so only categorical budgets are covered;
\* User.username is unique=True
UniqueOK(d) ==
    /\ \A b1, b2 \in d.budget :
          ~ (/\ b1.id # b2.id
             /\ b1.category_id # None
             /\ b1.user_id = b2.user_id /\ b1.category_id = b2.category_id
             /\ b1.year = b2.year /\ b1.month = b2.month)
    /\ \A u1, u2 \in d.user : u1.id # u2.id => u1.username # u2.username

\* db.session.commit(): the flush fails as a whole when a constraint is violated
commit(d, new, value) ==
    IF NotNullOK(new) /\ UniqueOK(new)
    THEN Ok(value, new)
    ELSE Raise("IntegrityError", <<"IntegrityError">>, d)

\* --------------------------------------------------------------- categories
get_category_by_id(d, user_id, category_id) ==
    IF category_id = None THEN Ok(None, d)
    ELSE LET found == {c \in d.category : c.user_id = user_id /\ c.id = category_id}
         IN IF found = {}
            THEN Raise("NotFoundError", <<"Category with id", category_id, "not found">>, d)
            ELSE Ok(CHOOSE c \in found : TRUE, d)

create_category(d, user_id, name) ==
    LET new_category == [id |-> NextId(d.category), user_id |-> user_id, name |-> name]
    IN commit(d, [d EXCEPT !.category = @ \cup {new_category}], new_category)

update_category(d, user_id, category_id, name) ==
    LET g == get_category_by_id(d, user_id, category_id)
    IN IF g.kind # "ok" THEN g
       ELSE LET category == [g.value EXCEPT !.name = name]
            IN commit(d, [d EXCEPT !.category = (@ \ {g.value}) \cup {category}], category)

\* the budgets of the category are kept, with category_id set to NULL
delete_category_nulling_budgets(d, user_id, category_id) ==
    LET g == get_category_by_id(d, user_id, category_id)
    IN IF g.kind # "ok" THEN g
       ELSE commit(d,
                   [d EXCEPT !.category = @ \ {g.value},
                             !.budget = {IF b.category_id = g.value.id
                                         THEN [b EXCEPT !.category_id = None]
                                         ELSE b : b \in @},
                             !.expense = {IF e.category_id = g.value.id
                                          THEN [e EXCEPT !.category_id = None]
                                          ELSE e : e \in @}],
                   TRUE)

\* db.session.delete(category): Category.budgets cascades the delete to the
\* category's budgets; Category.expenses has no cascade, so the category_id of
\* its expenses is set to NULL
delete_category(d, user_id, category_id) ==
    LET g == get_category_by_id(d, user_id, category_id)
    IN IF g.kind # "ok" THEN g
       ELSE commit(d,
                   [d EXCEPT !.category = @ \ {g.value},
                             !.budget = {b \in @ : b.category_id # g.value.id},
                             !.expense = {IF e.category_id = g.value.id
                                          THEN [e EXCEPT !.category_id = None]
                                          ELSE e : e \in @}],
                   TRUE)

\* ------------------------------------------------------------------ budgets
get_budget_by_id(d, user_id, budget_id) ==
    LET found == {b \in d.budget : b.user_id = user_id /\ b.id = budget_id}
    IN IF found = {}
       THEN Raise("NotFoundError",
                  <<"Budget with id", budget_id, "not found for user", user_id>>, d)
       ELSE Ok(CHOOSE b \in found : TRUE, d)

\* the conflict query compares category_id with '=' only, which no NULL satisfies
_check_for_conflicting_budget_null_unmatched(d, user_id, year, month, category_id, existing_budget_id) ==
    LET query == {b \in d.budget : /\ b.user_id = user_id /\ b.year = year
                                   /\ b.month = month /\ b.category_id = category_id
                                   /\ b.category_id # None
                                   /\ (existing_budget_id # None => b.id # existing_budget_id)}
    IN IF query # {}
       THEN LET scope == IF category_id = None THEN "Overall" ELSE "Categorical"
            IN Raise("BudgetAlreadyExistsError",
                     <<scope, "budget already exists for", year, "-", month>>, d)
       ELSE Ok(None, d)

\* the two scope labels of the message are exchanged
_check_for_conflicting_budget_labels_swapped(d, user_id, year, month, category_id, existing_budget_id) ==
    LET query == {b \in d.budget : /\ b.user_id = user_id /\ b.year = year
                                   /\ b.month = month /\ b.category_id = category_id
                                   /\ (existing_budget_id # None => b.id # existing_budget_id)}
    IN IF query # {}
       THEN LET scope == IF category_id = None THEN "Categorical" ELSE "Overall"
            IN Raise("BudgetAlreadyExistsError",
                     <<scope, "budget already exists for", year, "-", month>>, d)
       ELSE Ok(None, d)

\* the conflict query does not exclude the budget being updated
_check_for_conflicting_budget_including_self(d, user_id, year, month, category_id, existing_budget_id) ==
    LET query == {b \in d.budget : /\ b.user_id = user_id /\ b.year = year
                                   /\ b.month = month /\ b.category_id = category_id}
    IN IF query # {}
       THEN LET scope == IF category_id = None THEN "Overall" ELSE "Categorical"
            IN Raise("BudgetAlreadyExistsError",
                     <<scope, "budget already exists for", year, "-", month>>, d)
       ELSE Ok(None, d)

_check_for_conflicting_budget(d, user_id, year, month, category_id, existing_budget_id) ==
    LET query == {b \in d.budget : /\ b.user_id = user_id /\ b.year = year
                                   /\ b.month = month /\ b.category_id = category_id
                                   /\ (existing_budget_id # None => b.id # existing_budget_id)}
    IN IF query # {}
       THEN LET scope == IF category_id = None THEN "Overall" ELSE "Categorical"
            IN Raise("BudgetAlreadyExistsError",
                     <<scope, "budget already exists for", year, "-", month>>, d)
       ELSE Ok(None, d)

create_budget(d, user_id, data) ==
    LET chk == _check_for_conflicting_budget(d, user_id, data.year, data.month,
                                             data.category_id, None)
    IN IF chk.kind # "ok" THEN chk
       ELSE LET g == get_category_by_id(d, user_id, data.category_id)
            IN IF g.kind # "ok" THEN g
               ELSE LET new_budget == [id |-> NextId(d.budget), user_id |-> user_id,
                                       amount |-> data.amount, year |-> data.year,
                                       month |-> data.month,
                                       category_id |-> data.category_id]
                    IN commit(d, [d EXCEPT !.budget = @ \cup {new_budget}], new_budget)

\* every update runs the conflict check, and as create_budget runs it
update_budget_checked_as_create(d, user_id, budget_id, data) ==
    LET g == get_budget_by_id(d, user_id, budget_id)
    IN IF g.kind # "ok" THEN g
       ELSE
       LET budget == g.value
           chk == _check_for_conflicting_budget(d, user_id, Get(data, "year", budget.year),
                                                Get(data, "month", budget.month),
                                                Get(data, "category_id", budget.category_id),
                                                None)
       IN IF chk.kind # "ok" THEN chk
          ELSE
          LET c == IF "category_id" \in DOMAIN data
                   THEN get_category_by_id(d, user_id, data.category_id)
                   ELSE Ok(None, d)
          IN IF c.kind # "ok" THEN c
             ELSE
             LET updated == SetAttrs(budget, data)
             IN commit(d, [d EXCEPT !.budget = (@ \ {budget}) \cup {updated}], updated)

\* the session already holds the budget's old category: budget.category = None
\* then takes the budget out of that category's Category.budgets collection,
\* whose cascade is 'all, delete-orphan', and the flush deletes the budget row
update_budget_old_category_loaded(d, user_id, budget_id, data) ==
    LET g == get_budget_by_id(d, user_id, budget_id)
    IN IF g.kind # "ok" THEN g
       ELSE
       LET budget == g.value
           identity_changing == \/ "year" \in DOMAIN data
                                \/ "month" \in DOMAIN data
                                \/ "category_id" \in DOMAIN data
           new_year == Get(data, "year", budget.year)
           new_month == Get(data, "month", budget.month)
           new_category_id == Get(data, "category_id", budget.category_id)
           chk == IF identity_changing
                  THEN _check_for_conflicting_budget(d, user_id, new_year, new_month,
                                                     new_category_id, budget_id)
                  ELSE Ok(None, d)
       IN IF chk.kind # "ok" THEN chk
          ELSE
          LET c == IF "category_id" \in DOMAIN data
                   THEN get_category_by_id(d, user_id, data.category_id)
                   ELSE Ok(None, d)
          IN IF c.kind # "ok" THEN c
             ELSE
             LET updated == SetAttrs(budget, data)
                 orphan == /\ "category_id" \in DOMAIN data
                           /\ budget.category_id # None
                           /\ data.category_id = None
             IN IF orphan
                THEN commit(d, [d EXCEPT !.budget = @ \ {budget}], updated)
                ELSE commit(d, [d EXCEPT !.budget = (@ \ {budget}) \cup {updated}], updated)

\* the update runs without the conflict check
update_budget_unchecked(d, user_id, budget_id, data) ==
    LET g == get_budget_by_id(d, user_id, budget_id)
    IN IF g.kind # "ok" THEN g
       ELSE
       LET budget == g.value
           c == IF "category_id" \in DOMAIN data
                THEN get_category_by_id(d, user_id, data.category_id)
                ELSE Ok(None, d)
       IN IF c.kind # "ok" THEN c
          ELSE LET updated == SetAttrs(budget, data)
               IN commit(d, [d EXCEPT !.budget = (@ \ {budget}) \cup {updated}], updated)

\* The request runs in a session of its own, which has loaded the budget but
\* not the budget's category (a many-to-one that is replaced is not loaded for
\* its old value), so setting budget.category never touches the Category.budgets
\* collection of the old category and its delete-orphan cascade does not apply:
\* the flush updates category_id like any other column.
update_budget(d, user_id, budget_id, data) ==
    LET g == get_budget_by_id(d, user_id, budget_id)
    IN IF g.kind # "ok" THEN g
       ELSE
       LET budget == g.value
           identity_changing == \/ "year" \in DOMAIN data
                                \/ "month" \in DOMAIN data
                                \/ "category_id" \in DOMAIN data
           new_year == Get(data, "year", budget.year)
           new_month == Get(data, "month", budget.month)
           new_category_id == Get(data, "category_id", budget.category_id)
           chk == IF identity_changing
                  THEN _check_for_conflicting_budget(d, user_id, new_year, new_month,
                                                     new_category_id, budget_id)
                  ELSE Ok(None, d)
       IN IF chk.kind # "ok" THEN chk
          ELSE
          LET c == IF "category_id" \in DOMAIN data
                   THEN get_category_by_id(d, user_id, data.category_id)
                   ELSE Ok(None, d)
          IN IF c.kind # "ok" THEN c
             ELSE
             LET updated == SetAttrs(budget, data)
             IN commit(d, [d EXCEPT !.budget = (@ \ {budget}) \cup {updated}], updated)

\* the budget is looked up, and True is returned without a delete
delete_budget_kept(d, user_id, budget_id) ==
    LET g == get_budget_by_id(d, user_id, budget_id)
    IN IF g.kind # "ok" THEN g ELSE Ok(TRUE, d)

delete_budget(d, user_id, budget_id) ==
    LET g == get_budget_by_id(d, user_id, budget_id)
    IN IF g.kind # "ok" THEN g
       ELSE commit(d, [d EXCEPT !.budget = @ \ {g.value}], TRUE)

\* ------------------------------------------------- budgets, request by request
\* A request runs in a session of its own. Its queries read the committed rows
\* at the time they run; db.session.commit() flushes the pending INSERT, UPDATE
\* or DELETE against the rows committed by then, where the constraints of the
\* tables are checked.

\* a budget object without a row
NoRow == [id |-> None, user_id |-> None, amount |-> None, year |-> None,
          month |-> None, category_id |-> None]

\* create_budget up to db.session.add(new_budget): the new budget has no id yet
create_budget_begin(d, user_id, data) ==
    LET chk == _check_for_conflicting_budget(d, user_id, data.year, data.month,
                                             data.category_id, None)
    IN IF chk.kind # "ok" THEN chk
       ELSE LET g == get_category_by_id(d, user_id, data.category_id)
            IN IF g.kind # "ok" THEN g
               ELSE Ok([id |-> None, user_id |-> user_id, amount |-> data.amount,
                        year |-> data.year, month |-> data.month,
                        category_id |-> data.category_id], d)

\* the INSERT without the unique constraint of the table
flush_insert_unconstrained(d, row) ==
    LET new_budget == [row EXCEPT !.id = NextId(d.budget)]
    IN Ok(new_budget, [d EXCEPT !.budget = @ \cup {new_budget}])

\* db.session.commit() of a pending new budget: INSERT, the id is assigned now
flush_insert(d, row) ==
    LET new_budget == [row EXCEPT !.id = NextId(d.budget)]
    IN commit(d, [d EXCEPT !.budget = @ \cup {new_budget}], new_budget)

\* update_budget up to the last setattr: the budget as loaded and the budget
\* as changed in the session
update_budget_begin(d, user_id, budget_id, data) ==
    LET g == get_budget_by_id(d, user_id, budget_id)
    IN IF g.kind # "ok" THEN g
       ELSE
       LET budget == g.value
           identity_changing == \/ "year" \in DOMAIN data
                                \/ "month" \in DOMAIN data
                                \/ "category_id" \in DOMAIN data
           new_year == Get(data, "year", budget.year)
           new_month == Get(data, "month", budget.month)
           new_category_id == Get(data, "category_id", budget.category_id)
           chk == IF identity_changing
                  THEN _check_for_conflicting_budget(d, user_id, new_year, new_month,
                                                     new_category_id, budget_id)
                  ELSE Ok(None, d)
       IN IF chk.kind # "ok" THEN chk
          ELSE
          LET c == IF "category_id" \in DOMAIN data
                   THEN get_category_by_id(d, user_id, data.category_id)
                   ELSE Ok(None, d)
          IN IF c.kind # "ok" THEN c
             ELSE Ok([loaded |-> budget, row |-> SetAttrs(budget, data)], d)

\* db.session.commit() of a changed budget: UPDATE of the columns whose value
\* differs from the loaded one, WHERE id = the budget's id; no statement when
\* nothing differs, StaleDataError when the row is gone
flush_update(d, loaded, row) ==
    LET changed == {k \in DOMAIN row : row[k] # loaded[k]}
        current == {b \in d.budget : b.id = loaded.id}
    IN IF changed = {} THEN Ok(row, d)
       ELSE IF current = {}
       THEN Raise("StaleDataError", <<"UPDATE statement on table 'budget' expected to update 1 row(s); 0 were matched.">>, d)
       ELSE LET b == CHOOSE x \in current : TRUE
                updated == SetAttrs(b, [k \in changed |-> row[k]])
            IN commit(d, [d EXCEPT !.budget = (@ \ {b}) \cup {updated}], updated)

\* a request: where it stands (idle, before its INSERT or UPDATE, or done),
\* the budget it loaded, the budget it holds, and how it ended
Idle == [pc |-> "idle", loaded |-> NoRow, row |-> NoRow, kind |-> "ok"]
Done(kind) == [pc |-> "done", loaded |-> NoRow, row |-> NoRow, kind |-> kind]

\* db.session.commit() of a request
flush(d, req) ==
    CASE req.pc = "insert" -> flush_insert(d, req.row)
      [] req.pc = "update" -> flush_update(d, req.loaded, req.row)

\* --------------------------------------------------------------------- tags
\* a tag of another user is reported differently from a missing tag
get_tag_by_id_leaky(d, user_id, tag_id) ==
    LET found == {t \in d.tag : t.user_id = user_id /\ t.id = tag_id}
    IN IF found = {}
       THEN IF \E t \in d.tag : t.id = tag_id
            THEN Raise("NotFoundError", <<"Tag with id", tag_id, "not yours">>, d)
            ELSE Raise("NotFoundError", <<"Tag with id", tag_id, "not found">>, d)
       ELSE Ok(CHOOSE t \in found : TRUE, d)

get_tag_by_id(d, user_id, tag_id) ==
    LET found == {t \in d.tag : t.user_id = user_id /\ t.id = tag_id}
    IN IF found = {}
       THEN Raise("NotFoundError", <<"Tag with id", tag_id, "not found">>, d)
       ELSE Ok(CHOOSE t \in found : TRUE, d)

\* the message lists every requested id
validate_tags_lists_requested(d, user_id, tag_ids) ==
    LET fetched_ids == {t.id : t \in {r \in d.tag : r.id \in tag_ids /\ r.user_id = user_id}}
    IN IF Cardinality(fetched_ids) # Cardinality(tag_ids)
       THEN Raise("NotFoundError",
                  <<"One or more invalid tag ids:", sorted(tag_ids)>>, d)
       ELSE Ok(fetched_ids, d)

validate_tags(d, user_id, tag_ids) ==
    LET fetched_ids == {t.id : t \in {r \in d.tag : r.id \in tag_ids /\ r.user_id = user_id}}
    IN IF Cardinality(fetched_ids) # Cardinality(tag_ids)
       THEN LET invalid_ids == tag_ids \ fetched_ids
            IN Raise("NotFoundError",
                     <<"One or more invalid tag ids:", sorted(invalid_ids)>>, d)
       ELSE Ok(fetched_ids, d)

\* every list that holds each element of S once
RECURSIVE Perms(_)
Perms(S) == IF S = {} THEN {<<>>}
            ELSE UNION {{<<x>> \o p : p \in Perms(S \ {x})} : x \in S}

\* position of a name in ascending (binary) string order
Alphabet == <<"Groceries", "Utilities", "recurring", "urgent">>
NameRank(r) == CHOOSE i \in 1..Len(Alphabet) : Alphabet[i] = r.name

\* order_by(Tag.name): rows of equal name come in either order
order_by_name(rows) ==
    {p \in Perms(rows) : \A i, j \in 1..Len(p) : i < j => NameRank(p[i]) <= NameRank(p[j])}

\* the second query returns every tag of the user
get_tags_by_ids_all_of_user(d, user_id, tag_ids) ==
    IF tag_ids = {} THEN {Ok(<<>>, d)}
    ELSE LET v == validate_tags(d, user_id, tag_ids)
         IN IF v.kind # "ok" THEN {v}
            ELSE {Ok(l, d) : l \in order_by_name({t \in d.tag : t.user_id = user_id})}

\* the set of possible outcomes: one per admissible order of the result list
get_tags_by_ids(d, user_id, tag_ids) ==
    IF tag_ids = {} THEN {Ok(<<>>, d)}
    ELSE LET v == validate_tags(d, user_id, tag_ids)
         IN IF v.kind # "ok" THEN {v}
            ELSE {Ok(l, d) : l \in order_by_name({t \in d.tag : t.id \in v.value})}

create_tag(d, user_id, name) ==
    LET new_tag == [id |-> NextId(d.tag), user_id |-> user_id, name |-> name]
    IN commit(d, [d EXCEPT !.tag = @ \cup {new_tag}], new_tag)

update_tag(d, user_id, tag_id, name) ==
    LET g == get_tag_by_id(d, user_id, tag_id)
    IN IF g.kind # "ok" THEN g
       ELSE LET tag == [g.value EXCEPT !.name = name]
            IN commit(d, [d EXCEPT !.tag = (@ \ {g.value}) \cup {tag}], tag)

\* the rows of the expense_tag association table are left behind
delete_tag_keeping_links(d, user_id, tag_id) ==
    LET g == get_tag_by_id(d, user_id, tag_id)
    IN IF g.kind # "ok" THEN g
       ELSE commit(d, [d EXCEPT !.tag = @ \ {g.value}], TRUE)

\* db.session.delete(tag): the tag's rows of the expense_tag association table
\* are deleted with it
delete_tag(d, user_id, tag_id) ==
    LET g == get_tag_by_id(d, user_id, tag_id)
    IN IF g.kind # "ok" THEN g
       ELSE commit(d,
                   [d EXCEPT !.tag = @ \ {g.value},
                             !.expense = {[e EXCEPT !.tags = @ \ {g.value.id}] : e \in @}],
                   TRUE)

\* ----------------------------------------------------------------- expenses
\* the lookup filters on the id alone
get_expense_by_id_any_owner(d, user_id, expense_id) ==
    LET found == {e \in d.expense : e.id = expense_id}
    IN IF found = {}
       THEN Raise("NotFoundError",
                  <<"Expense with id", expense_id, "under user_id", user_id, "not found">>, d)
       ELSE Ok(CHOOSE e \in found : TRUE, d)

get_expense_by_id(d, user_id, expense_id) ==
    LET found == {e \in d.expense : e.user_id = user_id /\ e.id = expense_id}
    IN IF found = {}
       THEN Raise("NotFoundError",
                  <<"Expense with id", expense_id, "under user_id", user_id, "not found">>, d)
       ELSE Ok(CHOOSE e \in found : TRUE, d)

\* the ids of the tags of a result list
IdsOf(l) == {l[i].id : i \in 1..Len(l)}

\* the tags are looked up by id without the ownership check
create_expense_unchecked_tags(d, user_id, data) ==
    LET g == get_category_by_id(d, user_id, data.category_id)
    IN IF g.kind # "ok" THEN g
       ELSE LET new_expense == [id |-> NextId(d.expense),
                                name |-> data.name,
                                user_id |-> user_id,
                                amount |-> data.amount,
                                description |-> data.description,
                                date |-> data.date,
                                active_status |-> data.active_status,
                                merchant |-> data.merchant,
                                category_id |-> data.category_id,
                                tags |-> {t.id : t \in {r \in d.tag : r.id \in data.tag_ids}}]
            IN commit(d, [d EXCEPT !.expense = @ \cup {new_expense}], new_expense)

create_expense(d, user_id, data) ==
    LET g == get_category_by_id(d, user_id, data.category_id)
    IN IF g.kind # "ok" THEN g
       ELSE LET t == CHOOSE o \in get_tags_by_ids(d, user_id, data.tag_ids) : TRUE
            IN IF t.kind # "ok" THEN t
               ELSE LET new_expense == [id |-> NextId(d.expense),
                                        name |-> data.name,
                                        user_id |-> user_id,
                                        amount |-> data.amount,
                                        description |-> data.description,
                                        date |-> data.date,
                                        active_status |-> data.active_status,
                                        merchant |-> data.merchant,
                                        category_id |-> data.category_id,
                                        tags |-> IdsOf(t.value)]
                    IN commit(d, [d EXCEPT !.expense = @ \cup {new_expense}], new_expense)

\* the payload is dumped without exclude_unset: a nullable field that was not
\* named arrives as None
update_expense_unset_as_none(d, user_id, expense_id, data) ==
    LET g == get_expense_by_id(d, user_id, expense_id)
    IN IF g.kind # "ok" THEN g
       ELSE
       LET expense == g.value
           c == IF "category_id" \in DOMAIN data
                THEN get_category_by_id(d, user_id, data.category_id)
                ELSE Ok(None, d)
       IN IF c.kind # "ok" THEN c
          ELSE
          LET t == IF "tag_ids" \in DOMAIN data
                   THEN CHOOSE o \in get_tags_by_ids(d, user_id, data.tag_ids) : TRUE
                   ELSE Ok(<<>>, d)
          IN IF t.kind # "ok" THEN t
             ELSE
             LET scalars == SetAttrs(expense, Without(data, {"tag_ids"}))
                 dumped == IF "description" \in DOMAIN data THEN scalars
                           ELSE [scalars EXCEPT !.description = NoneStr]
                 updated == IF "tag_ids" \in DOMAIN data
                            THEN [dumped EXCEPT !.tags = IdsOf(t.value)]
                            ELSE dumped
             IN commit(d, [d EXCEPT !.expense = (@ \ {expense}) \cup {updated}], updated)

\* the expense as the request's session holds it when update_expense returns or
\* raises: the category is assigned (line 315) before the tags are resolved
\* (line 319), so after a failed tag lookup the session holds an expense with
\* the new category and the old tags; nothing of it is flushed by a commit
update_expense_in_session(d, user_id, expense_id, data) ==
    LET g == get_expense_by_id(d, user_id, expense_id)
    IN IF g.kind # "ok" THEN {}
       ELSE
       LET expense == g.value
           c == IF "category_id" \in DOMAIN data
                THEN get_category_by_id(d, user_id, data.category_id)
                ELSE Ok(None, d)
       IN IF c.kind # "ok" THEN {expense}
          ELSE
          LET categorised == IF "category_id" \in DOMAIN data
                             THEN [expense EXCEPT !.category_id = data.category_id]
                             ELSE expense
              t == IF "tag_ids" \in DOMAIN data
                   THEN CHOOSE o \in get_tags_by_ids(d, user_id, data.tag_ids) : TRUE
                   ELSE Ok(<<>>, d)
          IN IF t.kind # "ok" THEN {categorised}
             ELSE
             LET scalars == SetAttrs(categorised, Without(data, {"category_id", "tag_ids"}))
             IN {IF "tag_ids" \in DOMAIN data
                 THEN [scalars EXCEPT !.tags = IdsOf(t.value)]
                 ELSE scalars}

\* the category assignment is committed on its own before the tags are resolved
update_expense_category_committed_first(d, user_id, expense_id, data) ==
    LET g == get_expense_by_id(d, user_id, expense_id)
    IN IF g.kind # "ok" THEN g
       ELSE
       LET expense == g.value
           c == IF "category_id" \in DOMAIN data
                THEN get_category_by_id(d, user_id, data.category_id)
                ELSE Ok(None, d)
       IN IF c.kind # "ok" THEN c
          ELSE
          LET categorised == IF "category_id" \in DOMAIN data
                             THEN [expense EXCEPT !.category_id = data.category_id]
                             ELSE expense
              d1 == [d EXCEPT !.expense = (@ \ {expense}) \cup {categorised}]
              t == IF "tag_ids" \in DOMAIN data
                   THEN CHOOSE o \in get_tags_by_ids(d, user_id, data.tag_ids) : TRUE
                   ELSE Ok(<<>>, d)
          IN IF t.kind # "ok" THEN [t EXCEPT !.db = d1]
             ELSE
             LET scalars == SetAttrs(categorised, Without(data, {"tag_ids"}))
                 updated == IF "tag_ids" \in DOMAIN data
                            THEN [scalars EXCEPT !.tags = IdsOf(t.value)]
                            ELSE scalars
             IN commit(d1, [d EXCEPT !.expense = (@ \ {expense}) \cup {updated}], updated)

update_expense(d, user_id, expense_id, data) ==
    LET g == get_expense_by_id(d, user_id, expense_id)
    IN IF g.kind # "ok" THEN g
       ELSE
       LET expense == g.value
           c == IF "category_id" \in DOMAIN data
                THEN get_category_by_id(d, user_id, data.category_id)
                ELSE Ok(None, d)
       IN IF c.kind # "ok" THEN c
          ELSE
          LET t == IF "tag_ids" \in DOMAIN data
                   THEN CHOOSE o \in get_tags_by_ids(d, user_id, data.tag_ids) : TRUE
                   ELSE Ok(<<>>, d)
          IN IF t.kind # "ok" THEN t
             ELSE
             LET scalars == SetAttrs(expense, Without(data, {"tag_ids"}))
                 updated == IF "tag_ids" \in DOMAIN data
                            THEN [scalars EXCEPT !.tags = IdsOf(t.value)]
                            ELSE scalars
             IN commit(d, [d EXCEPT !.expense = (@ \ {expense}) \cup {updated}], updated)

delete_expense(d, user_id, expense_id) ==
    LET g == get_expense_by_id(d, user_id, expense_id)
    IN IF g.kind # "ok" THEN g
       ELSE commit(d, [d EXCEPT !.expense = @ \ {g.value}], TRUE)

\* ------------------------------------------------------------------ incomes
create_income(d, user_id, data) ==
    LET new_income == [id |-> NextId(d.income), user_id |-> user_id,
                       amount |-> data.amount, date |-> data.date,
                       source |-> data.source, description |-> data.description]
    IN commit(d, [d EXCEPT !.income = @ \cup {new_income}], new_income)

get_income_by_id(d, user_id, income_id) ==
    LET found == {i \in d.income : i.user_id = user_id /\ i.id = income_id}
    IN IF found = {}
       THEN Raise("NotFoundError", <<"Income with id", income_id, "not found">>, d)
       ELSE Ok(CHOOSE i \in found : TRUE, d)

\* the update replaces the row by a new one, which gets a new id
update_income_as_new_row(d, user_id, income_id, data) ==
    LET g == get_income_by_id(d, user_id, income_id)
    IN IF g.kind # "ok" THEN g
       ELSE LET income == [SetAttrs(g.value, data) EXCEPT !.id = NextId(d.income)]
            IN commit(d, [d EXCEPT !.income = (@ \ {g.value}) \cup {income}], income)

update_income(d, user_id, income_id, data) ==
    LET g == get_income_by_id(d, user_id, income_id)
    IN IF g.kind # "ok" THEN g
       ELSE LET income == SetAttrs(g.value, data)
            IN commit(d, [d EXCEPT !.income = (@ \ {g.value}) \cup {income}], income)

\* the row is deleted by id before the ownership lookup
delete_income_before_lookup(d, user_id, income_id) ==
    LET g == get_income_by_id(d, user_id, income_id)
        gone == [d EXCEPT !.income = {i \in @ : i.id # income_id}]
    IN IF g.kind # "ok" THEN [g EXCEPT !.db = gone]
       ELSE commit(d, gone, TRUE)

delete_income(d, user_id, income_id) ==
    LET g == get_income_by_id(d, user_id, income_id)
    IN IF g.kind # "ok" THEN g
       ELSE commit(d, [d EXCEPT !.income = @ \ {g.value}], TRUE)

\* ---------------------------------------------------------- authentication
\* generate_password_hash(password) draws a salt and stores it in the hash;
\* check_password_hash hashes the password with the salt of the stored hash
Salts == {"salt1", "salt2"}
generate_password_hash(password, salt) == <<salt, password>>
check_password_hash(pwhash, password) == pwhash = generate_password_hash(password, pwhash[1])

\* the lookup is left out: only the unique index on username stands in the way
register_user_unchecked(d, data, salt) ==
    LET new_user == [id |-> NextId(d.user), username |-> data.username,
                     password_hash |-> generate_password_hash(data.password, salt)]
    IN commit(d, [d EXCEPT !.user = @ \cup {new_user}], new_user)

\* salt is the salt generate_password_hash draws
register_user(d, data, salt) ==
    IF \E u \in d.user : u.username = data.username
    THEN Raise("UserAlreadyExistsError", <<"Username is taken">>, d)
    ELSE LET new_user == [id |-> NextId(d.user), username |-> data.username,
                          password_hash |-> generate_password_hash(data.password, salt)]
         IN commit(d, [d EXCEPT !.user = @ \cup {new_user}], new_user)

login_user(d, data) ==
    LET found == {u \in d.user : u.username = data.username}
    IN IF found = {}
       THEN Raise("InvalidCredentialError", <<"Invalid username or password">>, d)
       ELSE LET user == CHOOSE u \in found : TRUE
            IN IF ~check_password_hash(user.password_hash, data.password)
               THEN Raise("InvalidCredentialError", <<"Invalid username or password">>, d)
               ELSE Ok(user, d)

\* ------------------------------------------------------------ HTTP boundary
\* the handlers without the one for InvalidCredentialError
errorhandler_without_invalid_credential ==
    [NotFoundError |-> 404, ValueError |-> 400, UserAlreadyExistsError |-> 409]

\* the handlers create_app registers with app.errorhandler, by exception class
errorhandler ==
    [NotFoundError |-> 404, ValueError |-> 400, UserAlreadyExistsError |-> 409,
     InvalidCredentialError |-> 401]

\* an exception that leaves a view: the handler registered for its class
\* answers with its status and the body {"error": str(error)}; an exception
\* without handler is answered by Flask with 500 Internal Server Error, whose
\* body carries no error field (under TESTING it propagates to the caller
\* instead of being answered)
handle_user_exception(o) ==
    IF o.kind \in DOMAIN errorhandler
    THEN [status |-> errorhandler[o.kind], error |-> o.msg]
    ELSE [status |-> 500, error |-> <<>>]

\* a view: it answers with its own status when the service returns, and lets
\* an exception of the service pass
view(o, status) ==
    IF o.kind = "ok" THEN [status |-> status, error |-> <<>>] ELSE handle_user_exception(o)

\* get_jwt_identity(): tokens are issued by register and login for the id of a
\* stored user
Identities(d) == {u.id : u \in d.user}

\* ---------------------------------------------------------- list operations
Min(a, b) == IF a < b THEN a ELSE b

\* order_by(Expense.date.desc(), Expense.id.desc()): a total order
order_by_date_id_desc(rows) ==
    {p \in Perms(rows) : \A i, j \in 1..Len(p) : i < j =>
        \/ p[i].date > p[j].date
        \/ p[i].date = p[j].date /\ p[i].id > p[j].id}

\* order_by(Income.date.desc()): rows of equal date come in either order
order_by_date_desc(rows) ==
    {p \in Perms(rows) : \A i, j \in 1..Len(p) : i < j => p[i].date >= p[j].date}

\* order_by(Budget.year.desc(), Budget.month.desc(), Budget.id.desc()): a total
\* order
order_by_year_month_id_desc(rows) ==
    {p \in Perms(rows) : \A i, j \in 1..Len(p) : i < j =>
        \/ p[i].year > p[j].year
        \/ p[i].year = p[j].year /\ p[i].month > p[j].month
        \/ p[i].year = p[j].year /\ p[i].month = p[j].month /\ p[i].id > p[j].id}

\* query.paginate(page=page, per_page=per_page, error_out=False) on the ordered
\* result rows: a page below 1 becomes 1 and a per_page below 1 becomes 20
\* instead of an error; items are limit(per_page).offset((page - 1) * per_page),
\* pages is ceil(total / per_page), and 0 for an empty result
\* the number of pages is rounded down
paginate_pages_rounded_down(rows, page, per_page) ==
    LET p == IF page < 1 THEN 1 ELSE page
        n == IF per_page < 1 THEN 20 ELSE per_page
        total == Len(rows)
        pages == total \div n
    IN [items |-> SubSeq(rows, (p - 1) * n + 1, Min(p * n, total)),
        total |-> total, pages |-> pages, page |-> p, per_page |-> n,
        has_next |-> p < pages, has_prev |-> p > 1]

paginate(rows, page, per_page) ==
    LET p == IF page < 1 THEN 1 ELSE page
        n == IF per_page < 1 THEN 20 ELSE per_page
        total == Len(rows)
        pages == IF total = 0 THEN 0 ELSE (total + n - 1) \div n
    IN [items |-> SubSeq(rows, (p - 1) * n + 1, Min(p * n, total)),
        total |-> total, pages |-> pages, page |-> p, per_page |-> n,
        has_next |-> p < pages, has_prev |-> p > 1]

\* the set of possible outcomes of a list operation: one per admissible order
\* the id is left out of the ordering: expenses of equal date come in either order
get_all_expenses_by_date_only(d, user_id, page, per_page) ==
    {Ok(paginate(l, page, per_page), d) :
        l \in order_by_date_desc({e \in d.expense : e.user_id = user_id})}

get_all_expenses(d, user_id, page, per_page) ==
    {Ok(paginate(l, page, per_page), d) :
        l \in order_by_date_id_desc({e \in d.expense : e.user_id = user_id})}

get_all_categories(d, user_id, page, per_page) ==
    {Ok(paginate(l, page, per_page), d) :
        l \in order_by_name({c \in d.category : c.user_id = user_id})}

get_all_tags(d, user_id, page, per_page) ==
    {Ok(paginate(l, page, per_page), d) :
        l \in order_by_name({t \in d.tag : t.user_id = user_id})}

get_all_incomes(d, user_id, page, per_page) ==
    {Ok(paginate(l, page, per_page), d) :
        l \in order_by_date_desc({i \in d.income : i.user_id = user_id})}

\* paginate is called with its default error_out=True: a page other than the
\* first that has no items is answered with 404
get_all_budgets_error_out(d, user_id, page, per_page) ==
    {LET pag == paginate(l, page, per_page)
     IN IF Len(pag.items) = 0 /\ pag.page # 1
        THEN Raise("NotFound", <<"404 Not Found">>, d)
        ELSE Ok(pag, d) :
        l \in order_by_year_month_id_desc({b \in d.budget : b.user_id = user_id})}

get_all_budgets(d, user_id, page, per_page) ==
    {Ok(paginate(l, page, per_page), d) :
        l \in order_by_year_month_id_desc({b \in d.budget : b.user_id = user_id})}

\* the response schemas (from_attributes): an optional nested object is the
\* set of at most one record, the list of nested tags the set of their records
CategoryResponseSchema(c) == [id |-> c.id, name |-> c.name]
TagResponseSchema(t) == [id |-> t.id, name |-> t.name]

ExpenseResponseSchema(d, e) ==
    [id |-> e.id, name |-> e.name, amount |-> e.amount, description |-> e.description,
     date |-> e.date, active_status |-> e.active_status, merchant |-> e.merchant,
     category |-> {CategoryResponseSchema(c) : c \in {x \in d.category : x.id = e.category_id}},
     tags |-> {TagResponseSchema(t) : t \in {x \in d.tag : x.id \in e.tags}}]

IncomeResponseSchema(i) ==
    [id |-> i.id, source |-> i.source, amount |-> i.amount, date |-> i.date,
     description |-> i.description]

BudgetResponseSchema(d, b) ==
    [id |-> b.id, amount |-> b.amount, year |-> b.year, month |-> b.month,
     category |-> {CategoryResponseSchema(c) : c \in {x \in d.category : x.id = b.category_id}}]

\* schema.model_validate(e).model_dump() for the schema of a table
model_dump(schema, d, r) ==
    CASE schema = "category" -> CategoryResponseSchema(r)
      [] schema = "tag" -> TagResponseSchema(r)
      [] schema = "expense" -> ExpenseResponseSchema(d, r)
      [] schema = "income" -> IncomeResponseSchema(r)
      [] schema = "budget" -> BudgetResponseSchema(d, r)

pagination_to_response_data(d, pag, schema) ==
    [items |-> [i \in 1..Len(pag.items) |-> model_dump(schema, d, pag.items[i])],
     total |-> pag.total, pages |-> pag.pages, current_page |-> pag.page,
     per_page |-> pag.per_page, has_next |-> pag.has_next, has_prev |-> pag.has_prev]

\* a month without overall budget is given one of amount 0 on the way
get_budget_by_year_month_creating_overall(d, user_id, year, month) ==
    LET budgets == {b \in d.budget : b.user_id = user_id /\ b.year = year /\ b.month = month}
        default == [id |-> NextId(d.budget), user_id |-> user_id, amount |-> 0,
                    year |-> year, month |-> month, category_id |-> None]
        after == IF \E b \in budgets : b.category_id = None THEN d
                 ELSE [d EXCEPT !.budget = @ \cup {default}]
    IN {Ok([overall |-> {BudgetResponseSchema(d, b) : b \in {x \in budgets : x.category_id = None}},
            categorical |-> <<>>], after)}

\* the query does not filter on the user
get_budget_by_year_month_of_any_user(d, user_id, year, month) ==
    LET budgets == {b \in d.budget : b.year = year /\ b.month = month}
        overall(l) == LET at == {i \in 1..Len(l) : l[i].category_id = None}
                      IN IF at = {} THEN {} ELSE {BudgetResponseSchema(d, l[Max(at)])}
        categorical(l) == LET keep(b) == b.category_id # None
                          IN SelectSeq(l, keep)
    IN {Ok([overall |-> overall(l),
            categorical |-> [i \in 1..Len(categorical(l)) |->
                                BudgetResponseSchema(d, categorical(l)[i])]], d) :
        l \in Perms(budgets)}

\* the set of possible outcomes, one per order the unordered query may return
\* its rows in: "overall" is the last budget without category in that order
get_budget_by_year_month(d, user_id, year, month) ==
    LET budgets == {b \in d.budget : b.user_id = user_id /\ b.year = year /\ b.month = month}
        overall(l) == LET at == {i \in 1..Len(l) : l[i].category_id = None}
                      IN IF at = {} THEN {} ELSE {BudgetResponseSchema(d, l[Max(at)])}
        categorical(l) == LET keep(b) == b.category_id # None
                          IN SelectSeq(l, keep)
    IN {Ok([overall |-> overall(l),
            categorical |-> [i \in 1..Len(categorical(l)) |->
                                BudgetResponseSchema(d, categorical(l)[i])]], d) :
        l \in Perms(budgets)}

\* ------------------------------------------------------------------ reports
\* extract('year', date), extract('month', date) and str(date) of a date yyyymmdd
YearOf(date) == date \div 10000
MonthOf(date) == (date \div 100) % 100
str(date) == <<YearOf(date), "-", MonthOf(date), "-", date % 100>>

\* func.sum(Expense.amount) over a group of expense rows, in cents; float() of
\* a sum of two-decimal amounts names the same amount
RECURSIVE sum_amount(_)
sum_amount(rows) == IF rows = {} THEN 0
                    ELSE LET r == CHOOSE x \in rows : TRUE
                         IN r.amount + sum_amount(rows \ {r})

\* order_by(<aggregate>.desc()) on the result rows, the aggregate being their
\* field f: rows of equal aggregate come in either order
order_by_desc(entries, f) ==
    {p \in Perms(entries) : \A i, j \in 1..Len(p) : i < j => p[i][f] >= p[j][f]}

\* the first query filters on the date only: inactive expenses are summed too
get_expense_summary_by_category_all_statuses(d, user_id, start_date, end_date) ==
    LET rows == {e \in d.expense : /\ e.user_id = user_id
                                   /\ e.date >= start_date /\ e.date <= end_date
                                   /\ \E c \in d.category : c.id = e.category_id}
        name_of(e) == (CHOOSE c \in d.category : c.id = e.category_id).name
        group(name) == {e \in rows : name_of(e) = name}
        results == {[category_name |-> name, total_amount |-> sum_amount(group(name)),
                     count |-> Cardinality(group(name))] : name \in {name_of(e) : e \in rows}}
    IN {Ok(l, d) : l \in order_by_desc(results, "total_amount")}

\* Expense joined with Category on category_id (an expense without category
\* joins nothing), grouped by the category name
get_expense_summary_by_category(d, user_id, start_date, end_date) ==
    LET rows == {e \in d.expense : /\ e.user_id = user_id
                                   /\ e.date >= start_date /\ e.date <= end_date
                                   /\ e.active_status = TRUE
                                   /\ \E c \in d.category : c.id = e.category_id}
        name_of(e) == (CHOOSE c \in d.category : c.id = e.category_id).name
        group(name) == {e \in rows : name_of(e) = name}
        results == {[category_name |-> name, total_amount |-> sum_amount(group(name)),
                     count |-> Cardinality(group(name))] : name \in {name_of(e) : e \in rows}}
    IN {Ok(l, d) : l \in order_by_desc(results, "total_amount")}

\* grouped by date and ordered by date ascending, which is a total order
get_spending_over_time(d, user_id, start_date, end_date) ==
    LET rows == {e \in d.expense : /\ e.user_id = user_id
                                   /\ e.date >= start_date /\ e.date <= end_date}
        group(date) == {e \in rows : e.date = date}
        results == {[date |-> date, total_amount |-> sum_amount(group(date))] :
                    date \in {e.date : e \in rows}}
        ordered == {p \in Perms(results) :
                    \A i, j \in 1..Len(p) : i < j => p[i].date < p[j].date}
    IN {Ok([i \in 1..Len(l) |-> [date |-> str(l[i].date), amount |-> l[i].total_amount]], d) :
        l \in ordered}

get_monthly_summary_by_category(d, user_id, year, month) ==
    LET rows == {e \in d.expense : /\ e.user_id = user_id
                                   /\ YearOf(e.date) = year /\ MonthOf(e.date) = month
                                   /\ \E c \in d.category : c.id = e.category_id}
        name_of(e) == (CHOOSE c \in d.category : c.id = e.category_id).name
        group(name) == {e \in rows : name_of(e) = name}
        results == {[category |-> name, amount |-> sum_amount(group(name))] :
                    name \in {name_of(e) : e \in rows}}
    IN {Ok(l, d) : l \in order_by_desc(results, "amount")}

\* the filter on Expense.user_id is left out
get_top_tags_of_all_users(d, user_id, start_date, end_date, limit) ==
    LET rows == {<<t, e>> \in d.tag \X d.expense :
                    /\ t.id \in e.tags
                    /\ e.date >= start_date /\ e.date <= end_date}
        group(name) == {r \in rows : r[1].name = name}
        results == {[tag |-> name, count |-> Cardinality(group(name))] :
                    name \in {r[1].name : r \in rows}}
    IN {Ok(SubSeq(l, 1, Min(limit, Len(l))), d) : l \in order_by_desc(results, "count")}

\* Tag joined with expense_tag and Expense, grouped by the tag name; limit
\* keeps the first rows of the ordered result
get_top_tags(d, user_id, start_date, end_date, limit) ==
    LET rows == {<<t, e>> \in d.tag \X d.expense :
                    /\ t.id \in e.tags
                    /\ e.user_id = user_id
                    /\ e.date >= start_date /\ e.date <= end_date}
        group(name) == {r \in rows : r[1].name = name}
        results == {[tag |-> name, count |-> Cardinality(group(name))] :
                    name \in {r[1].name : r \in rows}}
    IN {Ok(SubSeq(l, 1, Min(limit, Len(l))), d) : l \in order_by_desc(results, "count")}

\* ------------------------------------------------------------------ inputs
\* the dictionary restricted to the keys that were set explicitly
Partial(full, D) == [k \in D |-> full[k]]

\* the update payloads drawn set at most two fields explicitly
FieldSets(fields) == {D \in SUBSET fields : Cardinality(D) <= 2}

\* a profile names the values the calls of one specification draw from;
\* amounts are in cents (Numeric(10, 2) holds two decimal places), a date is
\* the number yyyymmdd
SmallProfile == [users |-> UserIds,
                 category_names |-> {"Groceries"}, tag_names |-> {"urgent"},
                 names |-> {"Milk"}, sources |-> {"Salary"},
                 amounts |-> {100}, null_amounts |-> {100},
                 years |-> {2025}, null_years |-> {2025}, months |-> {7},
                 dates |-> {20250707}, descriptions |-> {NoneStr}, actives |-> {TRUE},
                 merchants |-> {NoneStr}, null_names |-> {"Milk"},
                 category_ids |-> {None} \cup Ids, tag_id_sets |-> SUBSET Ids,
                 query_dates |-> {20250707}, extra_rows |-> 0,
                 usernames |-> {"user1"}, passwords |-> {"password"}]

BudgetProfile == [SmallProfile EXCEPT !.amounts = {100, 200}, !.null_amounts = {None, 100, 200},
                                      !.years = {2025}, !.null_years = {None, 2025},
                                      !.months = {7, 8}]

ExpenseProfile == [SmallProfile EXCEPT !.users = {1},
                                       !.names = {"Milk", "Rent"},
                                       !.null_names = {NoneStr, "Milk", "Rent"},
                                       !.null_amounts = {None, 100},
                                       !.descriptions = {NoneStr, "Weekly"},
                                       !.actives = {TRUE, FALSE}]

\* the creates, updates and deletes of one user
DeleteProfile == [SmallProfile EXCEPT !.users = {1}]

\* concurrent budget requests of one user, for one period and one category
ConcurrentProfile == [SmallProfile EXCEPT !.users = {1}, !.category_ids = {None, 1}]

\* the list operations: two values for every column a list is ordered by, and
\* no category or tag references
ListProfile == [SmallProfile EXCEPT !.category_names = {"Groceries", "Utilities"},
                                    !.tag_names = {"recurring", "urgent"},
                                    !.dates = {20250707, 20250815},
                                    !.months = {7, 8},
                                    !.category_ids = {None},
                                    !.tag_id_sets = {{}}]

\* the category totals: one user, two category names, amounts, dates and
\* statuses, no tags, and one row more than MaxRows, so that two categories can
\* hold an expense each
SummaryProfile == [SmallProfile EXCEPT !.users = {1},
                                       !.category_names = {"Groceries", "Utilities"},
                                       !.tag_id_sets = {{}},
                                       !.amounts = {100, 250},
                                       !.dates = {20250707, 20250815},
                                       !.actives = {TRUE, FALSE},
                                       !.query_dates = {20250707, 20250815},
                                       !.extra_rows = 1]

\* the reports of two users: one value per field, and one row more than
\* MaxRows, so that both users can own an expense with a category or a tag
ReportProfile == [SmallProfile EXCEPT !.extra_rows = 1]

\* the application as create_app serves it: three usernames, two passwords
AppProfile == [SmallProfile EXCEPT !.usernames = {"user1", "user2", "user3"},
                                   !.passwords = {"pw1", "pw2"}]

\* AuthSchema
AuthData(P) == [username : P.usernames, password : P.passwords]

\* the values of the limit argument of get_top_tags; 10 is its default
Limits == {1, 10}

\* the page numbers and page sizes of the list calls: 0 is below the valid
\* range and MaxId + 1 lies beyond the last page of any list
PageArgs == 0..(MaxId + 1)

\* CreateBudgetSchema (year and month are range-checked by the schema)
CreateBudgetData(P) ==
    [amount : P.amounts, year : P.years, month : P.months, category_id : P.category_ids]

\* UpdateBudgetSchema after model_dump(exclude_unset=True)
UpdateBudgetData(P) ==
    {Partial(f, D) : f \in [amount : P.null_amounts, year : P.null_years,
                            month : P.months, category_id : {None} \cup Ids],
                     D \in FieldSets({"amount", "year", "month", "category_id"})}

\* CreateExpenseSchema
CreateExpenseData(P) ==
    [name : P.names, amount : P.amounts, description : P.descriptions,
     category_id : P.category_ids, active_status : P.actives, merchant : P.merchants,
     date : P.dates, tag_ids : P.tag_id_sets]

\* UpdateExpenseSchema after model_dump(exclude_unset=True)
UpdateExpenseData(P) ==
    {Partial(f, D) : f \in [name : P.null_names, amount : P.null_amounts,
                            description : P.descriptions, category_id : {None} \cup Ids,
                            active_status : P.actives, date : P.dates,
                            tag_ids : SUBSET Ids],
                     D \in FieldSets({"name", "amount", "description", "category_id",
                                     "active_status", "date", "tag_ids"})}

\* CreateIncomeSchema
CreateIncomeData(P) ==
    [source : P.sources, amount : P.amounts, date : P.dates, description : P.descriptions]

\* UpdateIncomeSchema after model_dump(exclude_unset=True)
UpdateIncomeData(P) ==
    {Partial(f, D) : f \in [source : P.sources, amount : P.null_amounts, date : P.dates,
                            description : P.descriptions],
                     D \in FieldSets({"source", "amount", "date", "description"})}

\* ----------------------------------------------------------------- actions
\* the bounds of the model; no call but a create adds a row or hands out an id
Bounded(P, d) ==
    /\ RowCount(d) <= MaxRows + P.extra_rows
    /\ \A t \in DOMAIN d : \A r \in d[t] : r.id <= MaxId

\* one service call: the database becomes the outcome's database
Do(op, o) ==
    /\ db' = o.db
    /\ last' = o.kind
    /\ UNCHANGED <<requests, deleted>>

\* a create call, within the bounds
DoCreate(P, o) ==
    /\ Bounded(P, o.db)
    /\ Do("create", o)

Init ==
    /\ db = EmptyDb
    /\ last = "ok"
    /\ requests = [r \in Requests |-> Idle]
    /\ deleted = NoEntity

GetCategoryById == \E u \in UserIds, id \in Ids :
    Do("get_category_by_id", get_category_by_id(db, u, id))
CreateCategory(P) == \E u \in P.users, n \in P.category_names :
    DoCreate(P, create_category(db, u, n))
UpdateCategory(P) == \E u \in UserIds, id \in Ids, n \in P.category_names :
    Do("update_category", update_category(db, u, id, n))
DeleteCategory == \E u \in UserIds, id \in Ids :
    Do("delete_category", delete_category(db, u, id))

GetTagById == \E u \in UserIds, id \in Ids :
    Do("get_tag_by_id", get_tag_by_id(db, u, id))
GetTagsByIds == \E u \in UserIds, ids \in SUBSET Ids :
    \E o \in get_tags_by_ids(db, u, ids) : Do("get_tags_by_ids", o)
CreateTag(P) == \E u \in P.users, n \in P.tag_names :
    DoCreate(P, create_tag(db, u, n))
UpdateTag(P) == \E u \in UserIds, id \in Ids, n \in P.tag_names :
    Do("update_tag", update_tag(db, u, id, n))
DeleteTag == \E u \in UserIds, id \in Ids :
    Do("delete_tag", delete_tag(db, u, id))

GetExpenseById == \E u \in UserIds, id \in Ids :
    Do("get_expense_by_id", get_expense_by_id(db, u, id))
CreateExpense(P) == \E u \in P.users, data \in CreateExpenseData(P) :
    DoCreate(P, create_expense(db, u, data))
UpdateExpense(P) == \E u \in UserIds, id \in Ids, data \in UpdateExpenseData(P) :
    Do("update_expense", update_expense(db, u, id, data))
DeleteExpense == \E u \in UserIds, id \in Ids :
    Do("delete_expense", delete_expense(db, u, id))

GetIncomeById == \E u \in UserIds, id \in Ids :
    Do("get_income_by_id", get_income_by_id(db, u, id))
CreateIncome(P) == \E u \in P.users, data \in CreateIncomeData(P) :
    DoCreate(P, create_income(db, u, data))
UpdateIncome(P) == \E u \in UserIds, id \in Ids, data \in UpdateIncomeData(P) :
    Do("update_income", update_income(db, u, id, data))
DeleteIncome == \E u \in UserIds, id \in Ids :
    Do("delete_income", delete_income(db, u, id))

GetBudgetById == \E u \in UserIds, id \in Ids :
    Do("get_budget_by_id", get_budget_by_id(db, u, id))
CreateBudget(P) == \E u \in P.users, data \in CreateBudgetData(P) :
    DoCreate(P, create_budget(db, u, data))
UpdateBudget(P) == \E u \in UserIds, id \in Ids, data \in UpdateBudgetData(P) :
    Do("update_budget", update_budget(db, u, id, data))
DeleteBudget == \E u \in UserIds, id \in Ids :
    Do("delete_budget", delete_budget(db, u, id))

GetAllExpenses == \E u \in UserIds, page \in PageArgs, per_page \in PageArgs :
    \E o \in get_all_expenses(db, u, page, per_page) : Do("get_all_expenses", o)
GetAllCategories == \E u \in UserIds, page \in PageArgs, per_page \in PageArgs :
    \E o \in get_all_categories(db, u, page, per_page) : Do("get_all_categories", o)
GetAllTags == \E u \in UserIds, page \in PageArgs, per_page \in PageArgs :
    \E o \in get_all_tags(db, u, page, per_page) : Do("get_all_tags", o)
GetAllIncomes == \E u \in UserIds, page \in PageArgs, per_page \in PageArgs :
    \E o \in get_all_incomes(db, u, page, per_page) : Do("get_all_incomes", o)
GetAllBudgets == \E u \in UserIds, page \in PageArgs, per_page \in PageArgs :
    \E o \in get_all_budgets(db, u, page, per_page) : Do("get_all_budgets", o)
GetBudgetByYearMonth(P) == \E u \in UserIds, year \in P.years, month \in P.months :
    \E o \in get_budget_by_year_month(db, u, year, month) : Do("get_budget_by_year_month", o)

GetExpenseSummaryByCategory(P) == \E u \in UserIds, s \in P.query_dates, e \in P.query_dates :
    \E o \in get_expense_summary_by_category(db, u, s, e) : Do("get_expense_summary_by_category", o)
GetSpendingOverTime(P) == \E u \in UserIds, s \in P.query_dates, e \in P.query_dates :
    \E o \in get_spending_over_time(db, u, s, e) : Do("get_spending_over_time", o)
GetMonthlySummaryByCategory(P) == \E u \in UserIds, d \in P.query_dates :
    \E o \in get_monthly_summary_by_category(db, u, YearOf(d), MonthOf(d)) : Do("get_monthly_summary_by_category", o)
GetTopTags(P) == \E u \in UserIds, s \in P.query_dates, e \in P.query_dates, limit \in Limits :
    \E o \in get_top_tags(db, u, s, e, limit) : Do("get_top_tags", o)

\* the routes create_app registers: auth_bp under /auth, expense_bp under /api
PostRegister(P) == \E data \in AuthData(P), salt \in Salts :
    DoCreate(P, register_user(db, data, salt))
PostLogin(P) == \E data \in AuthData(P) :
    Do("login_user", login_user(db, data))
ApiGetExpenses == \E u \in Identities(db), page \in PageArgs, per_page \in PageArgs :
    \E o \in get_all_expenses(db, u, page, per_page) : Do("get_all_expenses", o)
ApiGetExpense == \E u \in Identities(db), id \in Ids :
    Do("get_expense_by_id", get_expense_by_id(db, u, id))
ApiGetCategories == \E u \in Identities(db), page \in PageArgs, per_page \in PageArgs :
    \E o \in get_all_categories(db, u, page, per_page) : Do("get_all_categories", o)
ApiGetCategory == \E u \in Identities(db), id \in Ids :
    Do("get_category_by_id", get_category_by_id(db, u, id))
ApiGetTags == \E u \in Identities(db), ids \in SUBSET Ids, page \in PageArgs, per_page \in PageArgs :
    \E o \in (IF ids # {} THEN get_tags_by_ids(db, u, ids) ELSE get_all_tags(db, u, page, per_page)) : Do("get_tags", o)
ApiGetTag == \E u \in Identities(db), id \in Ids :
    Do("get_tag_by_id", get_tag_by_id(db, u, id))
ApiPostExpense(P) == \E u \in Identities(db), data \in CreateExpenseData(P) :
    DoCreate(P, create_expense(db, u, data))
ApiPutExpense(P) == \E u \in Identities(db), id \in Ids, data \in UpdateExpenseData(P) :
    Do("update_expense", update_expense(db, u, id, data))
ApiDeleteExpense == \E u \in Identities(db), id \in Ids :
    Do("delete_expense", delete_expense(db, u, id))

\* delete_X(u, id), remembering the entity when the call returns True
DoDelete(t, u, id, o) ==
    /\ db' = o.db
    /\ last' = o.kind
    /\ deleted' = IF o.kind = "ok" THEN <<t, u, id>> ELSE deleted
    /\ UNCHANGED requests
DeleteCategoryOf(P) == \E u \in P.users, id \in Ids :
    DoDelete("category", u, id, delete_category(db, u, id))
DeleteTagOf(P) == \E u \in P.users, id \in Ids :
    DoDelete("tag", u, id, delete_tag(db, u, id))
DeleteExpenseOf(P) == \E u \in P.users, id \in Ids :
    DoDelete("expense", u, id, delete_expense(db, u, id))
DeleteIncomeOf(P) == \E u \in P.users, id \in Ids :
    DoDelete("income", u, id, delete_income(db, u, id))
DeleteBudgetOf(P) == \E u \in P.users, id \in Ids :
    DoDelete("budget", u, id, delete_budget(db, u, id))

\* the budget requests served concurrently: a request first runs its queries
\* and prepares its change, and commits in a later step
Free(r) == requests[r].pc \in {"idle", "done"}
BeginCreateBudget(P) == \E r \in Requests, u \in P.users, data \in CreateBudgetData(P) :
    /\ Free(r)
    /\ LET o == create_budget_begin(db, u, data)
       IN /\ requests' = [requests EXCEPT ![r] =
                 IF o.kind = "ok"
                 THEN [pc |-> "insert", loaded |-> NoRow, row |-> o.value, kind |-> "ok"]
                 ELSE Done(o.kind)]
          /\ last' = o.kind
    /\ UNCHANGED <<db, deleted>>
BeginUpdateBudget(P) == \E r \in Requests, u \in P.users, id \in Ids, data \in UpdateBudgetData(P) :
    /\ Free(r)
    /\ LET o == update_budget_begin(db, u, id, data)
       IN /\ requests' = [requests EXCEPT ![r] =
                 IF o.kind = "ok"
                 THEN [pc |-> "update", loaded |-> o.value.loaded, row |-> o.value.row,
                       kind |-> "ok"]
                 ELSE Done(o.kind)]
          /\ last' = o.kind
    /\ UNCHANGED <<db, deleted>>
Commit(P) == \E r \in Requests :
    /\ ~Free(r)
    /\ LET o == flush(db, requests[r])
       IN /\ Bounded(P, o.db)
          /\ db' = o.db
          /\ last' = o.kind
          /\ requests' = [requests EXCEPT ![r] = [@ EXCEPT !.pc = "done", !.kind = o.kind]]
          /\ UNCHANGED deleted

\* ---------------------------------------------------------- specifications
\* every service over all five tables, each scalar field drawn from one value
Next ==
    \/ GetCategoryById \/ CreateCategory(SmallProfile) \/ UpdateCategory(SmallProfile)
    \/ DeleteCategory
    \/ GetTagById \/ GetTagsByIds \/ CreateTag(SmallProfile) \/ UpdateTag(SmallProfile)
    \/ DeleteTag
    \/ GetExpenseById \/ CreateExpense(SmallProfile) \/ UpdateExpense(SmallProfile)
    \/ DeleteExpense
    \/ GetIncomeById \/ CreateIncome(SmallProfile) \/ UpdateIncome(SmallProfile)
    \/ DeleteIncome
    \/ GetBudgetById \/ CreateBudget(SmallProfile) \/ UpdateBudget(SmallProfile)
    \/ DeleteBudget

Spec == Init /\ [][Next]_vars

\* the budget services and the category services they depend on
NextBudget ==
    \/ GetCategoryById \/ CreateCategory(BudgetProfile) \/ DeleteCategory
    \/ GetBudgetById \/ CreateBudget(BudgetProfile) \/ UpdateBudget(BudgetProfile)
    \/ DeleteBudget \/ GetBudgetByYearMonth(BudgetProfile)

SpecBudget == Init /\ [][NextBudget]_vars

\* creates, updates and deletes of every entity, the last delete remembered
NextDelete ==
    \/ CreateCategory(DeleteProfile) \/ UpdateCategory(DeleteProfile)
    \/ DeleteCategoryOf(DeleteProfile)
    \/ CreateTag(DeleteProfile) \/ UpdateTag(DeleteProfile) \/ DeleteTagOf(DeleteProfile)
    \/ CreateExpense(DeleteProfile) \/ UpdateExpense(DeleteProfile)
    \/ DeleteExpenseOf(DeleteProfile)
    \/ CreateIncome(DeleteProfile) \/ UpdateIncome(DeleteProfile)
    \/ DeleteIncomeOf(DeleteProfile)
    \/ CreateBudget(DeleteProfile) \/ UpdateBudget(DeleteProfile)
    \/ DeleteBudgetOf(DeleteProfile)

SpecDelete == Init /\ [][NextDelete]_vars

\* budget requests whose reads and commits interleave
NextConcurrent ==
    \/ CreateCategory(ConcurrentProfile)
    \/ BeginCreateBudget(ConcurrentProfile) \/ BeginUpdateBudget(ConcurrentProfile)
    \/ Commit(ConcurrentProfile)

SpecConcurrent == Init /\ [][NextConcurrent]_vars

\* the expense services and the category and tag services they depend on
NextExpense ==
    \/ CreateCategory(ExpenseProfile) \/ DeleteCategory
    \/ GetTagById \/ GetTagsByIds \/ CreateTag(ExpenseProfile) \/ DeleteTag
    \/ GetExpenseById \/ CreateExpense(ExpenseProfile) \/ UpdateExpense(ExpenseProfile)
    \/ DeleteExpense

SpecExpense == Init /\ [][NextExpense]_vars

\* every read operation, the list operations among them, over all five tables
NextList ==
    \/ CreateCategory(ListProfile) \/ DeleteCategory
    \/ CreateTag(ListProfile) \/ DeleteTag
    \/ CreateExpense(ListProfile) \/ DeleteExpense
    \/ CreateIncome(ListProfile) \/ DeleteIncome
    \/ CreateBudget(ListProfile) \/ DeleteBudget
    \/ GetAllExpenses \/ GetAllCategories \/ GetAllTags \/ GetAllIncomes \/ GetAllBudgets
    \/ GetCategoryById \/ GetTagById \/ GetTagsByIds \/ GetExpenseById \/ GetIncomeById
    \/ GetBudgetById \/ GetBudgetByYearMonth(ListProfile)
    \/ GetExpenseSummaryByCategory(ListProfile) \/ GetSpendingOverTime(ListProfile)
    \/ GetMonthlySummaryByCategory(ListProfile) \/ GetTopTags(ListProfile)

SpecList == Init /\ [][NextList]_vars

\* the requests the application serves
NextApp ==
    \/ PostRegister(AppProfile) \/ PostLogin(AppProfile)
    \/ ApiGetExpenses \/ ApiGetExpense \/ ApiGetCategories \/ ApiGetCategory
    \/ ApiGetTags \/ ApiGetTag
    \/ ApiPostExpense(AppProfile) \/ ApiPutExpense(AppProfile) \/ ApiDeleteExpense

SpecApp == Init /\ [][NextApp]_vars

\* the reports by category and by day over the expenses of one user
NextSummary ==
    \/ CreateCategory(SummaryProfile) \/ DeleteCategory
    \/ CreateExpense(SummaryProfile) \/ DeleteExpense
    \/ GetExpenseSummaryByCategory(SummaryProfile) \/ GetSpendingOverTime(SummaryProfile)
    \/ GetMonthlySummaryByCategory(SummaryProfile)

SpecSummary == Init /\ [][NextSummary]_vars

\* the four reports over the expenses, categories and tags of two users
NextReport ==
    \/ CreateCategory(ReportProfile) \/ DeleteCategory
    \/ CreateTag(ReportProfile) \/ DeleteTag
    \/ CreateExpense(ReportProfile) \/ DeleteExpense
    \/ GetExpenseSummaryByCategory(ReportProfile) \/ GetSpendingOverTime(ReportProfile)
    \/ GetMonthlySummaryByCategory(ReportProfile) \/ GetTopTags(ReportProfile)

SpecReport == Init /\ [][NextReport]_vars

\* ------------------------------------------------------------------ claims
\* the scope of a budget: (user, year, month, category-or-null)
Scope(b) == <<b.user_id, b.year, b.month, b.category_id>>

\* C1: no two persisted budgets have the same (user_id, year, month,
\* category_id), a null category_id counting as a value
C1_BudgetScopeUnique ==
    \A b1, b2 \in db.budget : b1.id # b2.id => Scope(b1) # Scope(b2)

\* two budgets of one user in the same month, one overall and one categorical,
\* after a call was rejected as a conflict
C1_Witness ==
    /\ last = "BudgetAlreadyExistsError"
    /\ \E b1, b2 \in db.budget :
          /\ b1.id # b2.id /\ b1.user_id = b2.user_id
          /\ b1.year = b2.year /\ b1.month = b2.month
          /\ b1.category_id = None /\ b2.category_id # None

\* C2: create_budget for a scope the user already has a budget for fails with
\* BudgetAlreadyExistsError and persists nothing; the message starts with
\* "Overall" for a null category_id and with "Categorical" otherwise
C2_CreateConflictRejected ==
    \A u \in UserIds, data \in CreateBudgetData(BudgetProfile) :
        (\E b \in db.budget : Scope(b) = <<u, data.year, data.month, data.category_id>>)
        => LET o == create_budget(db, u, data)
           IN /\ o.kind = "BudgetAlreadyExistsError"
              /\ o.db = db
              /\ o.msg[1] = IF data.category_id = None THEN "Overall" ELSE "Categorical"

\* a user holds an overall and a categorical budget and a conflicting call was
\* just rejected
C2_Witness ==
    /\ last = "BudgetAlreadyExistsError"
    /\ \E b1, b2 \in db.budget :
          /\ b1.user_id = b2.user_id
          /\ b1.category_id = None /\ b2.category_id # None
    /\ \E u \in UserIds, data \in CreateBudgetData(BudgetProfile) :
          create_budget(db, u, data).kind = "BudgetAlreadyExistsError"

\* the update payloads that give amount, year and month a value when they name them
ValuedBudgetData(P) ==
    {data \in UpdateBudgetData(P) :
        \A k \in DOMAIN data \cap {"amount", "year", "month"} : data[k] # None}

GetById(t, d, u, id) ==
    CASE t = "category" -> get_category_by_id(d, u, id)
      [] t = "tag" -> get_tag_by_id(d, u, id)
      [] t = "expense" -> get_expense_by_id(d, u, id)
      [] t = "income" -> get_income_by_id(d, u, id)
      [] t = "budget" -> get_budget_by_id(d, u, id)

DeleteById(t, d, u, id) ==
    CASE t = "category" -> delete_category(d, u, id)
      [] t = "tag" -> delete_tag(d, u, id)
      [] t = "expense" -> delete_expense(d, u, id)
      [] t = "income" -> delete_income(d, u, id)
      [] t = "budget" -> delete_budget(d, u, id)

UpdatesById(t, d, u, id, P, f) ==
    CASE t = "category" -> {update_category(d, u, id, n)[f] : n \in P.category_names}
      [] t = "tag" -> {update_tag(d, u, id, n)[f] : n \in P.tag_names}
      [] t = "expense" -> {update_expense(d, u, id, data)[f] : data \in UpdateExpenseData(P)}
      [] t = "income" -> {update_income(d, u, id, data)[f] : data \in UpdateIncomeData(P)}
      [] t = "budget" -> {update_budget(d, u, id, data)[f] : data \in UpdateBudgetData(P)}

\* the field f of the outcome of every get, update and delete of user A aimed
\* at the row r of table t
Attempts(t, A, r, f) ==
    {GetById(t, db, A, r.id)[f], DeleteById(t, db, A, r.id)[f]}
    \cup UpdatesById(t, db, A, r.id, SmallProfile, f)

\* C4: for users A # B and every expense, category, tag, income or budget
\* owned by B, get_X_by_id, update_X and delete_X called by A fail with
\* NotFoundError
C4_CrossUserNotFound ==
    \A t \in Tables : \A r \in db[t] : \A A \in UserIds \ {r.user_id} :
        \A kind \in Attempts(t, A, r, "kind") : kind = "NotFoundError"

\* both users own rows, one of them an expense with a category, and a call
\* has just failed with NotFoundError
C4_Witness ==
    /\ last = "NotFoundError"
    /\ \E e \in db.expense, c \in db.category, r \in db.income \cup db.budget \cup db.tag :
          e.category_id = c.id /\ r.user_id # e.user_id

\* C5: a get, update or delete attempted by A on an entity of another user B
\* leaves the whole persisted store unchanged
C5_CrossUserNoEffect ==
    \A t \in Tables : \A r \in db[t] : \A A \in UserIds \ {r.user_id} :
        \A after \in Attempts(t, A, r, "db") : after = db

\* an income of one user next to a budget of the other, after a failed call
C5_Witness ==
    /\ last = "NotFoundError"
    /\ \E i \in db.income, b \in db.budget : i.user_id # b.user_id

\* the store with every row of the other users removed
OwnRows(d, A) ==
    [t \in DOMAIN d |-> IF t \in Tables THEN {r \in d[t] : r.user_id = A} ELSE d[t]]

\* the caller cannot tell the two outcomes apart
SameOutcome(o1, o2) ==
    /\ o1.kind = o2.kind
    /\ o1.msg = o2.msg
    /\ o1.kind = "ok" => o1.value = o2.value

\* C6: get_X_by_id(A, id) gives A the same result (error kind and message) when
\* id names an entity of another user as when no entity has that id: the store
\* and the store without the other users' entities give A the same result
C6_ForeignLikeMissing ==
    \A t \in Tables, A \in UserIds, id \in 1..(MaxId + 1) :
        SameOutcome(GetById(t, db, A, id), GetById(t, OwnRows(db, A), A, id))

\* a tag and a budget owned by one user while the other owns a category, after
\* a lookup failed
C6_Witness ==
    /\ last = "NotFoundError"
    /\ \E g \in db.tag, b \in db.budget, c \in db.category :
          g.user_id = b.user_id /\ c.user_id # g.user_id

\* the ids of the tags owned by a user
TagIdsOf(u) == {t.id : t \in {r \in db.tag : r.user_id = u}}

\* s lists exactly the members of S, each once, in ascending order
AscendingListOf(s, S) ==
    /\ Len(s) = Cardinality(S)
    /\ {s[i] : i \in 1..Len(s)} = S
    /\ \A i, j \in 1..Len(s) : i < j => s[i] < s[j]

\* C7: get_tags_by_ids with a non-empty set holding an id that is not a tag of
\* the user fails with NotFoundError whose message lists exactly the ids that
\* are not tags of the user, in ascending order
C7_InvalidTagIdsListed ==
    \A u \in UserIds, ids \in SUBSET (1..(MaxId + 1)) :
        LET invalid == ids \ TagIdsOf(u)
        IN invalid # {} =>
              \A o \in get_tags_by_ids(db, u, ids) :
                  /\ o.kind = "NotFoundError"
                  /\ o.msg[1] = "One or more invalid tag ids:"
                  /\ AscendingListOf(o.msg[2], invalid)

\* each user owns one tag, so a request for both ids names a valid and an
\* invalid id, and a call has just failed with NotFoundError
C7_Witness ==
    /\ last = "NotFoundError"
    /\ \E t1, t2 \in db.tag : t1.user_id # t2.user_id
    /\ \E u \in UserIds, ids \in SUBSET Ids :
          /\ ids \cap TagIdsOf(u) # {} /\ ids \ TagIdsOf(u) # {}
          /\ \E o \in get_tags_by_ids(db, u, ids) : o.kind = "NotFoundError"

\* C8: get_tags_by_ids where every id is a tag of the user returns exactly
\* those tags, each once; with an empty set it returns an empty list
C8_ValidTagIdsReturned ==
    \A u \in UserIds, ids \in SUBSET (1..(MaxId + 1)) :
        ids \subseteq TagIdsOf(u) =>
            \A o \in get_tags_by_ids(db, u, ids) :
                /\ o.kind = "ok"
                /\ o.db = db
                /\ Len(o.value) = Cardinality(ids)
                /\ {o.value[i] : i \in 1..Len(o.value)} = {t \in db.tag : t.id \in ids}
                /\ \A i \in 1..Len(o.value) : o.value[i].user_id = u

\* a user owns two tags of the same name, so that the result list has two
\* admissible orders, after a successful call
C8_Witness ==
    /\ last = "ok"
    /\ \E u \in UserIds :
          /\ Cardinality(TagIdsOf(u)) = 2
          /\ Cardinality(get_tags_by_ids(db, u, TagIdsOf(u))) = 2

\* the category_id or one of the tag ids is not owned by the user
BadCategory(u, category_id) == category_id # None /\ get_category_by_id(db, u, category_id).kind # "ok"
BadTags(u, tag_ids) == tag_ids \ TagIdsOf(u) # {}

\* C9: create_expense, update_expense, create_budget and update_budget called
\* with a category_id or a tag id that is not owned by the caller fail with
\* NotFoundError and commit nothing
C9_ForeignReferenceRejected ==
    \A u \in UserIds :
        /\ \A data \in CreateExpenseData(SmallProfile) :
              (BadCategory(u, data.category_id) \/ BadTags(u, data.tag_ids))
              => LET o == create_expense(db, u, data)
                 IN o.kind = "NotFoundError" /\ o.db = db
        /\ \A id \in Ids, data \in UpdateExpenseData(SmallProfile) :
              (\/ "category_id" \in DOMAIN data /\ BadCategory(u, data.category_id)
               \/ "tag_ids" \in DOMAIN data /\ BadTags(u, data.tag_ids))
              => LET o == update_expense(db, u, id, data)
                 IN o.kind = "NotFoundError" /\ o.db = db
        /\ \A data \in CreateBudgetData(SmallProfile) :
              BadCategory(u, data.category_id)
              => LET o == create_budget(db, u, data)
                 IN o.kind = "NotFoundError" /\ o.db = db
        /\ \A id \in Ids, data \in UpdateBudgetData(SmallProfile) :
              ("category_id" \in DOMAIN data /\ BadCategory(u, data.category_id))
              => LET o == update_budget(db, u, id, data)
                 IN o.kind = "NotFoundError" /\ o.db = db

\* an expense with a tag of its owner, next to a category of the other user,
\* after a call failed with NotFoundError
C9_Witness ==
    /\ last = "NotFoundError"
    /\ \E e \in db.expense, c \in db.category :
          e.tags # {} /\ c.user_id # e.user_id

\* the columns update_expense can set with setattr
ExpenseColumns == {"name", "amount", "description", "category_id", "active_status", "date"}

\* C10: update_expense keeps the stored value of a field absent from the
\* payload, stores null for a field given as null (description, category) and
\* the value for a field given a value; the tags and the category change only
\* when tag_ids or category_id is in the payload, and nothing else changes
C10_PartialUpdate ==
    \A e \in db.expense, data \in UpdateExpenseData(ExpenseProfile) :
        LET o == update_expense(db, e.user_id, e.id, data)
            valid == /\ ("category_id" \in DOMAIN data => ~BadCategory(e.user_id, data.category_id))
                     /\ ("tag_ids" \in DOMAIN data => ~BadTags(e.user_id, data.tag_ids))
                     /\ ("name" \in DOMAIN data => data.name # NoneStr)
                     /\ ("amount" \in DOMAIN data => data.amount # None)
        IN valid =>
            /\ o.kind = "ok"
            /\ \E n \in o.db.expense :
                  /\ n.id = e.id /\ n.user_id = e.user_id /\ n.merchant = e.merchant
                  /\ \A f \in ExpenseColumns :
                        n[f] = IF f \in DOMAIN data THEN data[f] ELSE e[f]
                  /\ n.tags = IF "tag_ids" \in DOMAIN data THEN data.tag_ids ELSE e.tags
                  /\ o.db = [db EXCEPT !.expense = (@ \ {e}) \cup {n}]

\* an expense with a description, a category and a tag, after a successful call
C10_Witness ==
    /\ last = "ok"
    /\ \E e \in db.expense :
          e.description # NoneStr /\ e.category_id # None /\ e.tags # {}

\* C11: update_expense with an owned (or null) category_id and tag_ids holding
\* an id that is not a tag of the user fails with NotFoundError and persists
\* nothing: the stored expense keeps its category, tags and scalar fields, a
\* later lookup returns it as it was and a later successful update that does
\* not name the category stores the old category
C11_NoHalfUpdate ==
    \A e \in db.expense, data \in UpdateExpenseData(SmallProfile) :
        (/\ "category_id" \in DOMAIN data /\ "tag_ids" \in DOMAIN data
         /\ ~BadCategory(e.user_id, data.category_id)
         /\ BadTags(e.user_id, data.tag_ids))
        => LET o == update_expense(db, e.user_id, e.id, data)
           IN /\ o.kind = "NotFoundError"
              /\ o.db = db
              /\ get_expense_by_id(o.db, e.user_id, e.id).value = e
              /\ \A later \in UpdateExpenseData(SmallProfile) :
                    LET o2 == update_expense(o.db, e.user_id, e.id, later)
                    IN (o2.kind = "ok" /\ "category_id" \notin DOMAIN later)
                       => /\ o2.value.category_id = e.category_id
                          /\ ("tag_ids" \notin DOMAIN later => o2.value.tags = e.tags)

\* an expense without category whose owner has a category while the other user
\* owns a tag: an update naming that category and that tag has just failed, and
\* the failed request's session held the expense with the new category
C11_Witness ==
    /\ last = "NotFoundError"
    /\ \E e \in db.expense, c \in db.category, t \in db.tag :
          /\ c.user_id = e.user_id /\ t.user_id # e.user_id /\ e.category_id # c.id
          /\ LET data == [category_id |-> c.id, tag_ids |-> {t.id}]
             IN /\ update_expense(db, e.user_id, e.id, data).kind = "NotFoundError"
                /\ \E held \in update_expense_in_session(db, e.user_id, e.id, data) :
                      held.category_id = c.id /\ held.tags = e.tags

\* the list operation of a table, the rows of a user in a table and the least
\* number of pages of n rows that hold T rows
GetAll(t, d, u, p, n) ==
    CASE t = "category" -> get_all_categories(d, u, p, n)
      [] t = "tag" -> get_all_tags(d, u, p, n)
      [] t = "expense" -> get_all_expenses(d, u, p, n)
      [] t = "income" -> get_all_incomes(d, u, p, n)
      [] t = "budget" -> get_all_budgets(d, u, p, n)

Mine(t, u) == {r \in db[t] : r.user_id = u}

CeilDiv(T, n) == CHOOSE k \in 0..T : k * n >= T /\ (k = 0 \/ (k - 1) * n < T)

\* r1 comes before r2, or ties with it, in the order defined for table t
NotAfter(t, r1, r2) ==
    CASE t \in {"category", "tag"} -> NameRank(r1) <= NameRank(r2)
      [] t = "income" -> r1.date >= r2.date
      [] t = "expense" -> r1.date > r2.date \/ (r1.date = r2.date /\ r1.id >= r2.id)
      [] t = "budget" -> \/ r1.year > r2.year
                         \/ r1.year = r2.year /\ r1.month > r2.month
                         \/ r1.year = r2.year /\ r1.month = r2.month /\ r1.id >= r2.id

\* l lists the rows S, each once, in the order defined for table t
InDefinedOrder(t, l, S) ==
    /\ Len(l) = Cardinality(S)
    /\ {l[i] : i \in 1..Len(l)} = S
    /\ \A i, j \in 1..Len(l) : i < j => NotAfter(t, l[i], l[j])

\* C12: for a user with T rows, page p >= 1 and per_page n >= 1 every list
\* operation returns total = T, pages = ceil(T / n), page = p, per_page = n,
\* has_prev iff p > 1, has_next iff p < pages, and as items the rows at
\* positions (p-1)*n+1 .. p*n of the user's rows in the defined order;
\* pagination_to_response_data carries the same metadata and as many items
C12_Pagination ==
    \A t \in Tables, u \in UserIds, p \in 1..(MaxId + 1), n \in 1..(MaxId + 1) :
        \A o \in GetAll(t, db, u, p, n) :
            LET T == Cardinality(Mine(t, u))
                pages == CeilDiv(T, n)
                pag == o.value
                resp == pagination_to_response_data(db, pag, t)
                at == {k \in ((p - 1) * n + 1)..(p * n) : k <= T}
            IN /\ o.kind = "ok"
               /\ pag.total = T /\ pag.pages = pages
               /\ pag.page = p /\ pag.per_page = n
               /\ pag.has_prev = (p > 1) /\ pag.has_next = (p < pages)
               /\ \E l \in Perms(Mine(t, u)) :
                     /\ InDefinedOrder(t, l, Mine(t, u))
                     /\ pag.items = [i \in 1..Cardinality(at) |-> l[(p - 1) * n + i]]
               /\ resp.total = T /\ resp.pages = pages
               /\ resp.current_page = p /\ resp.per_page = n
               /\ resp.has_prev = (p > 1) /\ resp.has_next = (p < pages)
               /\ Len(resp.items) = Cardinality(at)
               /\ \A i \in 1..Len(resp.items) : resp.items[i].id = pag.items[i].id

\* a user has two expenses of different dates next to an income of the other
\* user: page 2 of size 1 holds the older one, with a previous and no next page
C12_Witness ==
    /\ last = "ok"
    /\ \E e1, e2 \in db.expense, e3 \in db.income :
          /\ e1.user_id = e2.user_id /\ e1.date > e2.date /\ e3.user_id # e1.user_id
          /\ \E o \in get_all_expenses(db, e1.user_id, 2, 1) :
                /\ o.value.items = <<e2>>
                /\ o.value.has_prev /\ ~o.value.has_next

\* C13: a list operation called with a page beyond the last page does not
\* fail: it returns no items and the total number of the user's rows
C13_PageBeyondLast ==
    \A t \in Tables, u \in UserIds, p \in 1..(MaxId + 2), n \in 1..(MaxId + 1) :
        p > CeilDiv(Cardinality(Mine(t, u)), n) =>
            \A o \in GetAll(t, db, u, p, n) :
                /\ o.kind = "ok"
                /\ Len(o.value.items) = 0
                /\ o.value.total = Cardinality(Mine(t, u))

\* a user has two budgets and an income: page 3 of size 1 of the budgets and
\* page 2 of size 2 of the incomes lie beyond the last page
C13_Witness ==
    /\ last = "ok"
    /\ \E u \in UserIds :
          /\ Cardinality(Mine("budget", u)) = 2 /\ Cardinality(Mine("income", u)) = 1
          /\ \E o \in get_all_budgets(db, u, 3, 1) : o.value.total = 2 /\ o.value.pages = 2
          /\ \E o \in get_all_incomes(db, u, 2, 2) : o.value.total = 1 /\ o.value.pages = 1

\* r1 comes strictly before r2 in the order of the expense and the budget list
Before(t, r1, r2) == NotAfter(t, r1, r2) /\ r1.id # r2.id

\* the rows of an item list
Items(o) == {o.value.items[i] : i \in 1..Len(o.value.items)}

\* C14: get_all_expenses lists by date descending then id descending and
\* get_all_budgets by year, month, id descending; for a fixed store and
\* per_page n, over the pages 1..pages every row of the user is on exactly one
\* page, every row on a page is the user's, and the rows are in that order
\* within a page and from one page to the next
C14_PagesPartition ==
    \A t \in {"expense", "budget"}, u \in UserIds, n \in 1..(MaxId + 1) :
        LET pages == CeilDiv(Cardinality(Mine(t, u)), n)
        IN /\ \A p \in 1..pages : \A o \in GetAll(t, db, u, p, n) :
                 /\ Items(o) \subseteq Mine(t, u)
                 /\ \A i, j \in 1..Len(o.value.items) :
                       i < j => Before(t, o.value.items[i], o.value.items[j])
           /\ \A r \in Mine(t, u) :
                 \E p \in 1..pages : \A o \in GetAll(t, db, u, p, n) : r \in Items(o)
           /\ \A p1, p2 \in 1..pages : p1 < p2 =>
                 \A o1 \in GetAll(t, db, u, p1, n), o2 \in GetAll(t, db, u, p2, n) :
                     \A r1 \in Items(o1), r2 \in Items(o2) : Before(t, r1, r2)

\* a user has two expenses of the same date, which only the id orders, next
\* to a budget of the other user
C14_Witness ==
    /\ last = "ok"
    /\ \E e1, e2 \in db.expense, e3 \in db.budget :
          /\ e1.user_id = e2.user_id /\ e1.date = e2.date /\ e1.id > e2.id
          /\ e3.user_id # e1.user_id
          /\ \E o \in get_all_expenses(db, e1.user_id, 1, 1) : o.value.items = <<e1>>
          /\ \E o \in get_all_expenses(db, e1.user_id, 2, 1) : o.value.items = <<e2>>

\* the active expenses of user u dated within [s, e] whose category is named
\* name, and the sum of the amounts of a set of expenses, added id by id
Counted(u, s, e, name) ==
    {x \in db.expense : /\ x.user_id = u /\ x.active_status = TRUE
                        /\ s <= x.date /\ x.date <= e
                        /\ \E c \in db.category : c.id = x.category_id /\ c.name = name}

RECURSIVE TotalUpTo(_, _)
TotalUpTo(S, k) ==
    IF k = 0 THEN 0
    ELSE TotalUpTo(S, k - 1) + (IF \E x \in S : x.id = k
                                THEN (CHOOSE x \in S : x.id = k).amount ELSE 0)

\* C15: get_expense_summary_by_category(u, s, e) returns one entry per
\* category name that has an active expense of u dated within [s, e], with the
\* sum of the amounts and the number of exactly those expenses, in
\* non-increasing order of the sum
C15_CategoryTotals ==
    \A u \in UserIds, s \in SummaryProfile.query_dates, e \in SummaryProfile.query_dates :
        \A o \in get_expense_summary_by_category(db, u, s, e) :
            LET names == {n \in {c.name : c \in db.category} : Counted(u, s, e, n) # {}}
                l == o.value
            IN /\ o.kind = "ok"
               /\ Len(l) = Cardinality(names)
               /\ {l[i].category_name : i \in 1..Len(l)} = names
               /\ \A i \in 1..Len(l) :
                     /\ l[i].total_amount = TotalUpTo(Counted(u, s, e, l[i].category_name), MaxId + 1)
                     /\ l[i].count = Cardinality(Counted(u, s, e, l[i].category_name))
               /\ \A i, j \in 1..Len(l) : i < j => l[i].total_amount >= l[j].total_amount

\* two categories of different names hold an active expense each, of different
\* amounts and dates: the report over both dates has two entries, the larger
\* total first, and the report over the first date has one
C15_Witness ==
    /\ last = "ok"
    /\ \E x1, x2 \in db.expense, c1, c2 \in db.category :
          /\ x1.category_id = c1.id /\ x2.category_id = c2.id /\ c1.name # c2.name
          /\ x1.active_status /\ x2.active_status
          /\ x1.amount > x2.amount /\ x1.date < x2.date
          /\ \E o \in get_expense_summary_by_category(db, x1.user_id, x1.date, x2.date) :
                /\ Len(o.value) = 2
                /\ o.value[1].category_name = c1.name /\ o.value[2].category_name = c2.name
          /\ \E o \in get_expense_summary_by_category(db, x1.user_id, x1.date, x1.date) :
                Len(o.value) = 1

\* the results a report can return
Values(outcomes) == {o.value : o \in outcomes}

\* C16: the four reports give user A the same results on the store as on the
\* store with the entities of every other user removed
C16_ReportsOwnDataOnly ==
    \A A \in UserIds, s \in ReportProfile.query_dates, e \in ReportProfile.query_dates :
        LET own == OwnRows(db, A)
        IN /\ Values(get_expense_summary_by_category(db, A, s, e))
                = Values(get_expense_summary_by_category(own, A, s, e))
           /\ Values(get_spending_over_time(db, A, s, e))
                = Values(get_spending_over_time(own, A, s, e))
           /\ Values(get_monthly_summary_by_category(db, A, YearOf(s), MonthOf(s)))
                = Values(get_monthly_summary_by_category(own, A, YearOf(s), MonthOf(s)))
           /\ \A limit \in Limits :
                 Values(get_top_tags(db, A, s, e, limit)) = Values(get_top_tags(own, A, s, e, limit))

\* both users own an expense with a tag of their own: the top tags of each
\* count one use
C16_Witness ==
    /\ last = "ok"
    /\ \E x1, x2 \in db.expense :
          /\ x1.user_id # x2.user_id /\ x1.tags # {} /\ x2.tags # {}
          /\ \E o \in get_top_tags(db, x1.user_id, x1.date, x1.date, 10) :
                Len(o.value) = 1 /\ o.value[1].count = 1

\* C17: every read operation (get_X_by_id, get_tags_by_ids, the list
\* operations, get_budget_by_year_month and the four reports) leaves the
\* persisted store as it was, whether it returns a result or fails
C17_ReadsChangeNothing ==
    \A u \in UserIds :
        /\ \A t \in Tables, id \in 1..(MaxId + 1) : GetById(t, db, u, id).db = db
        /\ \A ids \in SUBSET (1..(MaxId + 1)) : \A o \in get_tags_by_ids(db, u, ids) : o.db = db
        /\ \A t \in Tables, p \in PageArgs, n \in PageArgs :
              \A o \in GetAll(t, db, u, p, n) : o.db = db
        /\ \A year \in ListProfile.years, month \in ListProfile.months :
              \A o \in get_budget_by_year_month(db, u, year, month) : o.db = db
        /\ \A s \in ListProfile.dates, e \in ListProfile.dates :
              /\ \A o \in get_expense_summary_by_category(db, u, s, e) : o.db = db
              /\ \A o \in get_spending_over_time(db, u, s, e) : o.db = db
              /\ \A o \in get_monthly_summary_by_category(db, u, YearOf(s), MonthOf(s)) : o.db = db
              /\ \A limit \in Limits : \A o \in get_top_tags(db, u, s, e, limit) : o.db = db

\* the store holds an expense, a budget and a tag, a read has just failed with
\* NotFoundError, and reads of the user both fail and return results
C17_Witness ==
    /\ last = "NotFoundError"
    /\ \E x \in db.expense, b \in db.budget, t \in db.tag :
          /\ get_tag_by_id(db, x.user_id, MaxId + 1).kind = "NotFoundError"
          /\ \E o \in get_budget_by_year_month(db, b.user_id, b.year, b.month) :
                o.kind = "ok" /\ o.value.overall # {}
          /\ \E o \in get_all_expenses(db, x.user_id, 1, 1) : Len(o.value.items) = 1

\* C18: no two stored users have the same username; register_user with a
\* username that is already stored fails with UserAlreadyExistsError and
\* stores no user, and with a new username it stores exactly one more user,
\* who has that username
C18_UsernamesUnique ==
    /\ \A u1, u2 \in db.user : u1.username = u2.username => u1 = u2
    /\ \A data \in AuthData(AppProfile), salt \in Salts :
          LET o == register_user(db, data, salt)
          IN IF \E u \in db.user : u.username = data.username
             THEN o.kind = "UserAlreadyExistsError" /\ o.db = db
             ELSE /\ o.kind = "ok"
                  /\ o.value.username = data.username
                  /\ o.value \notin db.user
                  /\ o.db = [db EXCEPT !.user = @ \cup {o.value}]

\* two users are stored, and the registration that has just been refused
\* would be refused again for either name
C18_Witness ==
    /\ last = "UserAlreadyExistsError"
    /\ Cardinality(db.user) = 2
    /\ \A u \in db.user :
          register_user(db, [username |-> u.username, password |-> "pw2"], "salt1").kind
              = "UserAlreadyExistsError"

\* C19: when create_budget or update_budget raises BudgetAlreadyExistsError,
\* the response has status 409 and the message of the exception in its error
\* field
C19_BudgetConflictIs409 ==
    \A u \in UserIds :
        /\ \A data \in CreateBudgetData(BudgetProfile) :
              LET o == create_budget(db, u, data)
              IN o.kind = "BudgetAlreadyExistsError" =>
                    view(o, 201) = [status |-> 409, error |-> o.msg]
        /\ \A id \in Ids, data \in UpdateBudgetData(BudgetProfile) :
              LET o == update_budget(db, u, id, data)
              IN o.kind = "BudgetAlreadyExistsError" =>
                    view(o, 200) = [status |-> 409, error |-> o.msg]

\* the exceptions of the services pass the views to the handlers of create_app
Mapped(o, status) ==
    LET r == view(o, status)
    IN /\ o.kind = "NotFoundError" => r.status = 404 /\ r.error = o.msg /\ r.error # <<>>
       /\ o.kind = "UserAlreadyExistsError" => r.status = 409 /\ r.error = o.msg /\ r.error # <<>>
       /\ o.kind = "InvalidCredentialError" => r.status = 401 /\ r.error = o.msg /\ r.error # <<>>

Racing(r1, r2) ==
    /\ r1 # r2
    /\ requests[r1].pc = "insert" /\ requests[r2].pc = "insert"
    /\ Scope(requests[r1].row) = Scope(requests[r2].row)
    /\ requests[r1].row.category_id # None

\* the budgets of a store with the scope of a budget
Holding(d, row) == {b \in d.budget : Scope(b) = Scope(row)}

\* C21: when two create_budget requests of one user for the same categorical
\* scope have both passed the conflict check, whichever commits first persists
\* its budget and the other fails with the IntegrityError of the unique
\* constraint, not with BudgetAlreadyExistsError, and persists nothing: exactly
\* one budget of that scope is stored
C21_OneCommitWins ==
    \A r1, r2 \in Requests :
        Racing(r1, r2) =>
            LET o1 == flush(db, requests[r1])
                o2 == flush(o1.db, requests[r2])
            IN /\ Holding(db, requests[r1].row) = {}
               /\ o1.kind = "ok"
               /\ o2.kind = "IntegrityError"
               /\ o2.db = o1.db
               /\ Cardinality(Holding(o2.db, requests[r1].row)) = 1

\* both requests are done: one committed its budget, the other has just
\* failed with IntegrityError, and one budget of their scope is stored
C21_Witness ==
    /\ last = "IntegrityError"
    /\ \E r1, r2 \in Requests :
          /\ r1 # r2
          /\ requests[r1].pc = "done" /\ requests[r1].kind = "ok"
          /\ requests[r2].pc = "done" /\ requests[r2].kind = "IntegrityError"
          /\ requests[r1].loaded = NoRow /\ requests[r2].loaded = NoRow
          /\ Scope(requests[r1].row) = Scope(requests[r2].row)
          /\ requests[r1].row.category_id # None
          /\ Cardinality(Holding(db, requests[r1].row)) = 1

\* C22: the store never holds two overall budgets (category_id null) of the
\* same user for the same year and month
C22_OneOverallBudget ==
    \A b1, b2 \in db.budget :
        (/\ b1.category_id = None /\ b2.category_id = None
         /\ b1.user_id = b2.user_id /\ b1.year = b2.year /\ b1.month = b2.month)
        => b1 = b2

\* get_X_by_id, every update_X and delete_X of user u for id fail with
\* NotFoundError in the store d
Gone(t, d, u, id) ==
    /\ GetById(t, d, u, id).kind = "NotFoundError"
    /\ DeleteById(t, d, u, id).kind = "NotFoundError"
    /\ \A kind \in UpdatesById(t, d, u, id, SmallProfile, "kind") : kind = "NotFoundError"

\* C23 as stated: after a delete_X(user, id) that returned True,
\* get_X_by_id(user, id), update_X(user, id, ...) and delete_X(user, id) fail
\* with NotFoundError from then on
C23_DeletedStaysGone ==
    deleted # NoEntity => Gone(deleted[1], db, deleted[2], deleted[3])

\* the step hands the id of the remembered entity out again: a create_X of its
\* user adds a row with that id to its table
Reissued ==
    \E r \in db'[deleted[1]] \ db[deleted[1]] :
        /\ r.id = deleted[3] /\ r.user_id = deleted[2]
        /\ db'[deleted[1]] = db[deleted[1]] \cup {r}
        /\ \A x \in db[deleted[1]] : x.id # r.id

\* delete_X(user, id) on an owned entity returns True and removes that entity
\* and no other of its type, after which get, update and delete fail
DeleteRemoves ==
    \A t \in Tables : \A r \in db[t] :
        LET o == DeleteById(t, db, r.user_id, r.id)
        IN /\ o.kind = "ok" /\ o.value = TRUE
           /\ o.db[t] = db[t] \ {r}
           /\ Cardinality(o.db[t]) = Cardinality(db[t]) - 1
           /\ Gone(t, o.db, r.user_id, r.id)

\* update_X and delete_X fail with NotFoundError wherever get_X_by_id does
GoneTogether ==
    \A t \in Tables, u \in UserIds, id \in Ids :
        GetById(t, db, u, id).kind = "NotFoundError" => Gone(t, db, u, id)

\* C23, amended: delete_X(user, id) on an owned entity returns True and removes
\* exactly that entity of its type, whose number drops by one; get_X_by_id,
\* update_X and a second delete_X for (user, id) then fail with NotFoundError
\* until a create_X of the user is handed the same id again
C23_DeletedGoneUntilReissued ==
    /\ []DeleteRemoves
    /\ []GoneTogether
    /\ [][(/\ deleted # NoEntity
           /\ deleted' = deleted
           /\ GetById(deleted[1], db, deleted[2], deleted[3]).kind = "NotFoundError"
           /\ GetById(deleted[1], db', deleted[2], deleted[3]).kind # "NotFoundError")
          => Reissued]_vars

\* an expense was deleted, the user's other expense is still stored, and a
\* later call for the deleted id has just failed
C23_Witness ==
    /\ deleted # NoEntity /\ deleted[1] = "expense"
    /\ last = "NotFoundError"
    /\ Gone("expense", db, deleted[2], deleted[3])
    /\ \E x \in db.expense : x.user_id = deleted[2] /\ x.id # deleted[3]

\* the payloads that name year, month or category_id, each with the value the
\* budget b has
OwnScopeData(b) ==
    {data \in ValuedBudgetData(BudgetProfile) :
        /\ DOMAIN data \cap {"year", "month", "category_id"} # {}
        /\ \A k \in DOMAIN data \cap {"year", "month", "category_id"} : data[k] = b[k]}

\* C24: an update_budget whose payload names year, month or category_id with
\* the budget's own values does not fail with BudgetAlreadyExistsError: it
\* succeeds and the budget keeps its scope
C24_OwnScopeNoConflict ==
    \A b \in db.budget : \A data \in OwnScopeData(b) :
        LET o == update_budget(db, b.user_id, b.id, data)
        IN /\ o.kind # "BudgetAlreadyExistsError"
           /\ o.kind = "ok"
           /\ \E n \in o.db.budget : n.id = b.id /\ Scope(n) = Scope(b)

\* a user holds two budgets of one month, an update has just succeeded, and
\* each of them can be updated with its own year, month and category
C24_Witness ==
    /\ last = "ok"
    /\ \E b1, b2 \in db.budget :
          /\ b1.id # b2.id /\ b1.user_id = b2.user_id
          /\ b1.year = b2.year /\ b1.month = b2.month
          /\ \E data \in OwnScopeData(b1) :
                /\ DOMAIN data = {"month", "category_id"}
                /\ update_budget(db, b1.user_id, b1.id, data).kind = "ok"

C27_DeleteCategoryCascade ==
    \A c \in db.category :
        LET o == delete_category(db, c.user_id, c.id)
        IN /\ o.kind = "ok" /\ o.value = TRUE
           /\ o.db.category = db.category \ {c}
           /\ o.db.budget = {b \in db.budget : b.category_id # c.id}
           /\ \A e \in db.expense :
                 IF e.category_id = c.id
                 THEN [e EXCEPT !.category_id = None] \in o.db.expense
                 ELSE e \in o.db.expense
           /\ Cardinality(o.db.expense) = Cardinality(db.expense)
           /\ o.db.tag = db.tag /\ o.db.income = db.income /\ o.db.user = db.user
           /\ \A b1, b2 \in o.db.budget : b1.id # b2.id => Scope(b1) # Scope(b2)

\* a category has just been deleted: an expense with a tag is stored without
\* category, and neither a category nor a budget is left
C27_Witness ==
    /\ deleted[1] = "category" /\ last = "ok"
    /\ db.category = {} /\ db.budget = {}
    /\ \E e \in db.expense : e.category_id = None /\ e.tags # {}

\* C28: the category of every stored expense and budget, when not null, and
\* every tag of every stored expense is a stored entity of the same user
C28_ReferencesOwned ==
    /\ \A e \in db.expense :
          /\ e.category_id # None =>
                \E c \in db.category : c.id = e.category_id /\ c.user_id = e.user_id
          /\ \A tag_id \in e.tags :
                \E t \in db.tag : t.id = tag_id /\ t.user_id = e.user_id
    /\ \A b \in db.budget :
          b.category_id # None =>
              \E c \in db.category : c.id = b.category_id /\ c.user_id = b.user_id

\* an expense with a category and a tag is stored, a call has just failed with
\* NotFoundError, and the other user's create with that category is refused
C28_Witness ==
    /\ last = "NotFoundError"
    /\ \E e \in db.expense :
          /\ e.category_id # None /\ e.tags # {}
          /\ \A u \in UserIds \ {e.user_id} :
                create_budget(db, u, [amount |-> 100, year |-> 2025, month |-> 7,
                                      category_id |-> e.category_id]).kind = "NotFoundError"

Owners(d) == [t \in Tables |-> {<<r.id, r.user_id>> : r \in d[t]}]

\* the field f of the outcomes of create_X over its payloads
CreatesBy(t, d, u, P, f) ==
    CASE t = "category" -> {create_category(d, u, n)[f] : n \in P.category_names}
      [] t = "tag" -> {create_tag(d, u, n)[f] : n \in P.tag_names}
      [] t = "expense" -> {create_expense(d, u, data)[f] : data \in CreateExpenseData(P)}
      [] t = "income" -> {create_income(d, u, data)[f] : data \in CreateIncomeData(P)}
      [] t = "budget" -> {create_budget(d, u, data)[f] : data \in CreateBudgetData(P)}

\* the entities of user A, as (table, id)
Reachable(d, A) == UNION {{<<t, r.id>> : r \in {x \in d[t] : x.user_id = A}} : t \in Tables}

====
